---- MODULE Spec2Model ----
(***************************************************************************)
(* A model of the 4-in-a-row game server: the board engine (Game.ts), the  *)
(* scripted opponent (Bot.ts) and the matchmaking and session registry     *)
(* (GameManager.ts), with its timers and the continuations of its async    *)
(* methods.                                                                *)
(***************************************************************************)
EXTENDS Integers, Sequences, FiniteSets, Bags, TLC

VARIABLES
    games,                \* #games: game id -> Game
    waitingPlayers,       \* #waitingPlayers, in insertion order
    playerToGame,         \* #playerToGame: username -> game id
    disconnectedPlayers,  \* #disconnectedPlayers: username -> {gameId, color}
    timers,               \* armed setTimeout callbacks (a bag)
    tasks,                \* async methods suspended at an await (a bag)
    nextId,               \* how many game ids randomUUID has handed out
    isConnected,          \* KafkaProducer.isConnected
    sent,                 \* the send(ws, data) calls of the last step, ws non-null
    calls                 \* the kafkaProducer / db calls of the last step

vars == <<games, waitingPlayers, playerToGame, disconnectedPlayers,
          timers, tasks, nextId, isConnected, sent, calls>>

----------------------------------------------------------------------------
(* Program constants *)

ROWS == 6
COLS == 7
WIN_LENGTH == 4

Null == "null"
Red == "red"
Yellow == "yellow"
Draw == "draw"
PlayerColor == {Red, Yellow}

BotName == "Bot"
NoWs == <<>>

(* Bounds of the model *)

MaxMoves == 2  \* discs per game explored from the empty board (Spec)
MaxPlies == 7    \* discs per game explored with every column open (SpecGame)
MaxGrace == 1    \* reconnect timers armed at once for one seat
LateCells == 6   \* empty cells at the start of an endgame

\* The names, sockets and game ids of the model. randomUUID hands out the
\* ids of Uuids in order; a user's first socket is the one it joins with.
Users == {"a", "b"}
Sockets == <<"s1", "s2">>
Uuids == <<"g1", "g2">>
NoId == ""
GameIds == {Uuids[k] : k \in 1..Len(Uuids)}
randomUUID(n) == Uuids[n + 1]
RowIdx == 0..(ROWS - 1)
ColIdx == 0..(COLS - 1)

----------------------------------------------------------------------------
(* Game.ts: the board engine *)

createEmptyBoard == [r \in RowIdx |-> [c \in ColIdx |-> Null]]

\* new Game(player1, player2, gameId)
NewGame(player1, player2, gameId) ==
    [id |-> gameId,
     players |-> <<player1, player2>>,
     board |-> createEmptyBoard,
     currentPlayer |-> Red,
     winner |-> Null,
     moveCount |-> 0]

OnBoard(r, c) == r >= 0 /\ r < ROWS /\ c >= 0 /\ c < COLS

\* The while loop of countInDirection, from (r, c) on.
RECURSIVE CountFrom(_, _, _, _, _, _)
CountFrom(board, r, c, color, rowDir, colDir) ==
    IF OnBoard(r, c) /\ board[r][c] = color
    THEN 1 + CountFrom(board, r + rowDir, c + colDir, color, rowDir, colDir)
    ELSE 0

countInDirection(board, row, col, color, rowDir, colDir) ==
    CountFrom(board, row + rowDir, col + colDir, color, rowDir, colDir)

\* checkDirection, had its count started at 0 and not at the placed disc
checkDirectionFromZero(board, row, col, color, rowDir, colDir) ==
    LET positiveCount == countInDirection(board, row, col, color, rowDir, colDir)
        negativeCount == countInDirection(board, row, col, color, -rowDir, -colDir)
        count == 0 + positiveCount + negativeCount
    IN  count >= WIN_LENGTH

checkDirection(board, row, col, color, rowDir, colDir) ==
    LET positiveCount == countInDirection(board, row, col, color, rowDir, colDir)
        negativeCount == countInDirection(board, row, col, color, -rowDir, -colDir)
        count == 1 + positiveCount + negativeCount
    IN  count >= WIN_LENGTH

\* checkWin, had it left the horizontal axis out
checkWinNoHorizontal(board, row, col, color) ==
    IF board[row][col] # color THEN FALSE
    ELSE LET vertical == checkDirection(board, row, col, color, 1, 0)
             diagonal1 == checkDirection(board, row, col, color, 1, 1)
             diagonal2 == checkDirection(board, row, col, color, 1, -1)
         IN  vertical \/ diagonal1 \/ diagonal2

checkWin(board, row, col, color) ==
    IF board[row][col] # color THEN FALSE
    ELSE LET horizontal == checkDirection(board, row, col, color, 0, 1)
             vertical == checkDirection(board, row, col, color, 1, 0)
             diagonal1 == checkDirection(board, row, col, color, 1, 1)
             diagonal2 == checkDirection(board, row, col, color, 1, -1)
         IN  horizontal \/ vertical \/ diagonal1 \/ diagonal2

isBoardFull(board) == \A c \in ColIdx : board[0][c] # Null

\* The loop "for r = ROWS - 1 down to 0": the lowest empty row, or -1.
RECURSIVE LowestFrom(_, _, _)
LowestFrom(board, column, r) ==
    IF r < 0 THEN -1
    ELSE IF board[r][column] = Null THEN r
    ELSE LowestFrom(board, column, r - 1)

\* The loop, had it run from the top row down and stopped at the first empty row
HighestEmptyRow(board, column) ==
    IF board[0][column] = Null THEN 0 ELSE -1

LowestEmptyRow(board, column) == LowestFrom(board, column, ROWS - 1)

\* The validation, had it no check of the winner
MoveIsValidAfterEnd(game, column, color) ==
    /\ color = game.currentPlayer
    /\ ~(column < 0 \/ column >= COLS)
    /\ game.board[0][column] = Null

\* The validation, had it no check of the turn
MoveIsValidAnyTurn(game, column, color) ==
    /\ game.winner = Null
    /\ ~(column < 0 \/ column >= COLS)
    /\ game.board[0][column] = Null

\* The validation at the head of Game.makeMove.
MoveIsValid(game, column, color) ==
    /\ game.winner = Null
    /\ color = game.currentPlayer
    /\ ~(column < 0 \/ column >= COLS)
    /\ game.board[0][column] = Null

\* Game.makeMove, had it no check for a draw
PlaceDiscNoDraw(game, row, column, color) ==
    LET placed == [game EXCEPT !.board[row][column] = color,
                               !.moveCount = @ + 1]
    IN  IF checkWin(placed.board, row, column, color)
        THEN [placed EXCEPT !.winner = color]
        ELSE [placed EXCEPT !.currentPlayer = IF color = Red THEN Yellow ELSE Red]

\* Game.makeMove, had it checked for a draw before the win
PlaceDiscDrawFirst(game, row, column, color) ==
    LET placed == [game EXCEPT !.board[row][column] = color,
                               !.moveCount = @ + 1]
    IN  IF isBoardFull(placed.board)
        THEN [placed EXCEPT !.winner = Draw]
        ELSE IF checkWin(placed.board, row, column, color)
        THEN [placed EXCEPT !.winner = color]
        ELSE [placed EXCEPT !.currentPlayer = IF color = Red THEN Yellow ELSE Red]

\* Game.makeMove, had it not counted the move
PlaceDiscUncounted(game, row, column, color) ==
    LET placed == [game EXCEPT !.board[row][column] = color]
    IN  IF checkWin(placed.board, row, column, color)
        THEN [placed EXCEPT !.winner = color]
        ELSE IF isBoardFull(placed.board)
        THEN [placed EXCEPT !.winner = Draw]
        ELSE [placed EXCEPT !.currentPlayer = IF color = Red THEN Yellow ELSE Red]

\* What Game.makeMove does once the move is validated and the row found.
PlaceDisc(game, row, column, color) ==
    LET placed == [game EXCEPT !.board[row][column] = color,
                               !.moveCount = @ + 1]
    IN  IF checkWin(placed.board, row, column, color)
        THEN [placed EXCEPT !.winner = color]
        ELSE IF isBoardFull(placed.board)
        THEN [placed EXCEPT !.winner = Draw]
        ELSE [placed EXCEPT !.currentPlayer = IF color = Red THEN Yellow ELSE Red]

\* Game.makeMove(column, color): the returned boolean and the game after it.
Game_makeMove(game, column, color) ==
    IF ~MoveIsValid(game, column, color)
    THEN [ok |-> FALSE, game |-> game]
    ELSE LET row == LowestEmptyRow(game.board, column)
         IN  IF row = -1
             THEN [ok |-> FALSE, game |-> game]
             ELSE [ok |-> TRUE, game |-> PlaceDisc(game, row, column, color)]

\* players.find(p => p.color === color)
getPlayerByColor(game, color) ==
    IF game.players[1].color = color THEN game.players[1] ELSE game.players[2]

----------------------------------------------------------------------------
(* Bot.ts: the scripted opponent, new Bot(color) *)

opponentColor(color) == IF color = Red THEN Yellow ELSE Red

Directions == <<<<0, 1>>, <<1, 0>>, <<1, 1>>, <<1, -1>>>>

\* Bot.getValidMoves: the open columns, in ascending order.
RECURSIVE ValidFrom(_, _)
ValidFrom(board, col) ==
    IF col >= COLS THEN <<>>
    ELSE (IF board[0][col] = Null THEN <<col>> ELSE <<>>)
         \o ValidFrom(board, col + 1)

getValidMoves(board) == ValidFrom(board, 0)

getLowestRow(board, column) == LowestFrom(board, column, ROWS - 1)

countConsecutive(board, row, col, color, rowDir, colDir) ==
    1 + countInDirection(board, row, col, color, rowDir, colDir)
      + countInDirection(board, row, col, color, -rowDir, -colDir)

countThreats(board, row, col, color) ==
    Cardinality({i \in 1..Len(Directions) :
        countConsecutive(board, row, col, color,
                         Directions[i][1], Directions[i][2]) >= 3})

Bot_checkWin(board, row, col, color) ==
    \E i \in 1..Len(Directions) :
        countConsecutive(board, row, col, color,
                         Directions[i][1], Directions[i][2]) >= WIN_LENGTH

\* Bot.wouldWin: the trial disc goes on a copy of the board.
Bot_wouldWin(board, column, color) ==
    LET row == getLowestRow(board, column)
    IN  IF row = -1 THEN FALSE
        ELSE LET boardCopy == [board EXCEPT ![row][column] = color]
             IN  Bot_checkWin(boardCopy, row, column, color)

Abs(n) == IF n < 0 THEN -n ELSE n

\* -Infinity: below every score evaluateMove computes for an open column.
NegInfinity == -1

\* Bot.evaluateMove, had it not preferred the centre columns
evaluateMoveNoCentre(board, column, color) ==
    LET row == getLowestRow(board, column)
    IN  IF row = -1 THEN NegInfinity
        ELSE LET own == [board EXCEPT ![row][column] = color]
                 opp == [board EXCEPT ![row][column] = opponentColor(color)]
             IN  countThreats(own, row, column, color) * 50
                 + countThreats(opp, row, column, opponentColor(color)) * 30

evaluateMove(board, column, color) ==
    LET row == getLowestRow(board, column)
    IN  IF row = -1 THEN NegInfinity
        ELSE LET centerCol == COLS \div 2
                 own == [board EXCEPT ![row][column] = color]
                 opp == [board EXCEPT ![row][column] = opponentColor(color)]
             IN  (3 - Abs(column - centerCol)) * 10
                 + countThreats(own, row, column, color) * 50
                 + countThreats(opp, row, column, opponentColor(color)) * 30

\* The first column of moves that wins for color, or -1.
RECURSIVE FirstWinning(_, _, _, _)
FirstWinning(board, moves, i, color) ==
    IF i > Len(moves) THEN -1
    ELSE IF Bot_wouldWin(board, moves[i], color) THEN moves[i]
    ELSE FirstWinning(board, moves, i + 1, color)

\* The scoring loop: a later column replaces the best only with a greater score.
RECURSIVE BestScored(_, _, _, _, _, _)
BestScored(board, moves, i, color, bestScore, bestMove) ==
    IF i > Len(moves) THEN bestMove
    ELSE LET score == evaluateMove(board, moves[i], color)
         IN  IF score > bestScore
             THEN BestScored(board, moves, i + 1, color, score, moves[i])
             ELSE BestScored(board, moves, i + 1, color, bestScore, bestMove)

\* Bot.getBestMove, had it given up with one column open as with none
getBestMoveGivingUpLast(board, color) ==
    LET validMoves == getValidMoves(board)
        win == FirstWinning(board, validMoves, 1, color)
        block == FirstWinning(board, validMoves, 1, opponentColor(color))
    IN  IF Len(validMoves) <= 1 THEN -1
        ELSE IF win # -1 THEN win
        ELSE IF block # -1 THEN block
        ELSE BestScored(board, validMoves, 1, color, NegInfinity, validMoves[1])

\* Bot.getBestMove, had it looked for the opponent's winning column first
getBestMoveBlockingFirst(board, color) ==
    LET validMoves == getValidMoves(board)
        win == FirstWinning(board, validMoves, 1, color)
        block == FirstWinning(board, validMoves, 1, opponentColor(color))
    IN  IF Len(validMoves) = 0 THEN -1
        ELSE IF Len(validMoves) = 1 THEN validMoves[1]
        ELSE IF block # -1 THEN block
        ELSE IF win # -1 THEN win
        ELSE BestScored(board, validMoves, 1, color, NegInfinity, validMoves[1])

\* Bot.getBestMove(board) of a bot playing color.
getBestMove(board, color) ==
    LET validMoves == getValidMoves(board)
        win == FirstWinning(board, validMoves, 1, color)
        block == FirstWinning(board, validMoves, 1, opponentColor(color))
    IN  IF Len(validMoves) = 0 THEN -1
        ELSE IF Len(validMoves) = 1 THEN validMoves[1]
        ELSE IF win # -1 THEN win
        ELSE IF block # -1 THEN block
        ELSE BestScored(board, validMoves, 1, color, NegInfinity, validMoves[1])

----------------------------------------------------------------------------
(* The boards as JavaScript holds them: an array of references to row     *)
(* arrays. heap is the sequence of the row arrays allocated so far, a     *)
(* board the address of each of its rows; a write through one board shows *)
(* in every board that holds the row.                                     *)

\* The heap that holds board alone, and the board's reference in it
HeapOf(board) == [a \in 1..ROWS |-> board[a - 1]]
LiveBoard == [r \in RowIdx |-> r + 1]

\* The cells a reference shows
Deref(heap, ref) == [r \in RowIdx |-> heap[ref[r]]]

\* ref[row][column] = value
Store(heap, ref, row, column, value) ==
    [heap EXCEPT ![ref[row]][column] = value]

\* Bot.copyBoard, had it copied the array of rows and not the rows: [...board]
copyBoardSharingRows(heap, ref) ==
    [heap |-> heap, value |-> ref]

\* Bot.copyBoard: board.map(row => [...row]), each row copied to a new array
copyBoard(heap, ref) ==
    [heap |-> heap \o [k \in 1..ROWS |-> heap[ref[k - 1]]],
     value |-> [r \in RowIdx |-> Len(heap) + r + 1]]

\* Bot.wouldWin(board, column, color) on the heap
Bot_wouldWinIn(heap, ref, column, color) ==
    LET row == getLowestRow(Deref(heap, ref), column)
    IN  IF row = -1 THEN [heap |-> heap, value |-> FALSE]
        ELSE LET boardCopy == copyBoard(heap, ref)
                 written == Store(boardCopy.heap, boardCopy.value, row, column, color)
             IN  [heap |-> written,
                  value |-> Bot_checkWin(Deref(written, boardCopy.value),
                                         row, column, color)]

\* Bot.evaluateMove(board, column) of a bot playing color, on the heap
evaluateMoveIn(heap, ref, column, color) ==
    LET row == getLowestRow(Deref(heap, ref), column)
    IN  IF row = -1 THEN [heap |-> heap, value |-> NegInfinity]
        ELSE LET centerCol == COLS \div 2
                 testBoard == copyBoard(heap, ref)
                 own == Store(testBoard.heap, testBoard.value, row, column, color)
                 opp == Store(own, testBoard.value, row, column, opponentColor(color))
             IN  [heap |-> opp,
                  value |->
                     (3 - Abs(column - centerCol)) * 10
                     + countThreats(Deref(own, testBoard.value), row, column, color) * 50
                     + countThreats(Deref(opp, testBoard.value), row, column,
                                    opponentColor(color)) * 30]

\* The loops of getBestMove over wouldWin, on the heap
RECURSIVE FirstWinningIn(_, _, _, _, _)
FirstWinningIn(heap, ref, moves, i, color) ==
    IF i > Len(moves) THEN [heap |-> heap, value |-> -1]
    ELSE LET won == CHOOSE r \in {Bot_wouldWinIn(heap, ref, moves[i], color)} : TRUE
         IN  IF won.value THEN [heap |-> won.heap, value |-> moves[i]]
             ELSE FirstWinningIn(won.heap, ref, moves, i + 1, color)

\* The scoring loop of getBestMove, on the heap
RECURSIVE BestScoredIn(_, _, _, _, _, _, _)
BestScoredIn(heap, ref, moves, i, color, bestScore, bestMove) ==
    IF i > Len(moves) THEN [heap |-> heap, value |-> bestMove]
    ELSE LET score == CHOOSE r \in {evaluateMoveIn(heap, ref, moves[i], color)} : TRUE
         IN  IF score.value > bestScore
             THEN BestScoredIn(score.heap, ref, moves, i + 1, color,
                               score.value, moves[i])
             ELSE BestScoredIn(score.heap, ref, moves, i + 1, color,
                               bestScore, bestMove)

\* Bot.getBestMove(board) of a bot playing color, on the heap
getBestMoveIn(heap, ref, color) ==
    LET validMoves == getValidMoves(Deref(heap, ref))
        win == CHOOSE r \in {FirstWinningIn(heap, ref, validMoves, 1, color)} : TRUE
        block == CHOOSE r \in {FirstWinningIn(win.heap, ref, validMoves, 1,
                                              opponentColor(color))} : TRUE
    IN  IF Len(validMoves) = 0 THEN [heap |-> heap, value |-> -1]
        ELSE IF Len(validMoves) = 1 THEN [heap |-> heap, value |-> validMoves[1]]
        ELSE IF win.value # -1 THEN win
        ELSE IF block.value # -1 THEN block
        ELSE BestScoredIn(block.heap, ref, validMoves, 1, color,
                          NegInfinity, validMoves[1])

\* Game.isValidMove(column) of a game whose board is ref
isValidMoveIn(heap, ref, column) ==
    /\ ~(column < 0 \/ column >= COLS)
    /\ heap[ref[0]][column] = Null

\* The null that Game.simulateMove returns for no board
NoBoard == <<>>

\* Game.simulateMove(column, color) of a game whose board is ref; the value
\* is the board returned, or NoBoard
simulateMoveIn(heap, ref, column, color) ==
    IF ~isValidMoveIn(heap, ref, column) THEN [heap |-> heap, value |-> NoBoard]
    ELSE LET boardCopy == copyBoard(heap, ref)
             r == LowestEmptyRow(Deref(boardCopy.heap, boardCopy.value), column)
         IN  IF r = -1 THEN [heap |-> boardCopy.heap, value |-> NoBoard]
             ELSE [heap |-> Store(boardCopy.heap, boardCopy.value, r, column, color),
                   value |-> boardCopy.value]

\* Game.wouldWin(column, color) of a game whose board is ref: the disc is
\* placed on the board itself and taken off again
wouldWinIn(heap, ref, column, color) ==
    IF ~isValidMoveIn(heap, ref, column) THEN [heap |-> heap, value |-> FALSE]
    ELSE LET row == LowestEmptyRow(Deref(heap, ref), column)
             placed == Store(heap, ref, row, column, color)
             board == Deref(placed, ref)
             horizontal == checkDirection(board, row, column, color, 0, 1)
             vertical == checkDirection(board, row, column, color, 1, 0)
             diagonal1 == checkDirection(board, row, column, color, 1, 1)
             diagonal2 == checkDirection(board, row, column, color, 1, -1)
             isWin == horizontal \/ vertical \/ diagonal1 \/ diagonal2
         IN  IF row = -1 THEN [heap |-> heap, value |-> FALSE]
             ELSE [heap |-> Store(placed, ref, row, column, Null), value |-> isWin]

----------------------------------------------------------------------------
(* GameManager.ts: helpers *)

EmptyMap == [k \in {} |-> Null]
MapPut(f, k, v) == [x \in DOMAIN f \cup {k} |-> IF x = k THEN v ELSE f[x]]
MapDelete(f, k) == [x \in DOMAIN f \ {k} |-> f[x]]

Human(username, ws, color) ==
    [username |-> username, ws |-> ws, color |-> color, isBot |-> FALSE]

botPlayer == [username |-> BotName, ws |-> NoWs, color |-> Yellow, isBot |-> TRUE]

\* The callbacks handed to setTimeout, and the awaits an async method is parked at.
NoPlayer == Human("", NoWs, Null)
MatchmakingTimer(player) ==
    [kind |-> "matchmaking", gameId |-> NoId, username |-> player.username, player |-> player]
ReconnectTimer(gameId, username) ==
    [kind |-> "reconnect", gameId |-> gameId, username |-> username, player |-> NoPlayer]
BotMoveTimer(gameId) ==
    [kind |-> "botMove", gameId |-> gameId, username |-> "", player |-> NoPlayer]
CleanupTimer(gameId) ==
    [kind |-> "cleanup", gameId |-> gameId, username |-> "", player |-> NoPlayer]

\* setTimeout and clearTimeout; clearing a timer that has fired does nothing.
setTimeout(bag, t) == bag (+) SetToBag({t})
clearTimeout(bag, t) == bag (-) SetToBag({t})

\* An async method parked at an await. It keeps its reference to the Game
\* object: game is that object once the table no longer holds it.
Task(kind, game, detached, winner) ==
    [kind |-> kind, gameId |-> game.id, game |-> game,
     detached |-> detached, winner |-> winner]

\* GameManager.send(ws, data): nothing is sent on a null socket.
send(out, ws, data) ==
    IF ws # NoWs THEN Append(out, [to |-> ws, data |-> data]) ELSE out

ErrorMsg(message) == [type |-> "error", message |-> message]
GameStartMsg(game, you, opponent) ==
    [type |-> "gameStart", gameId |-> game.id, yourColor |-> you.color,
     currentPlayer |-> game.currentPlayer, board |-> game.board,
     opponent |-> opponent.username]
MoveMsg(game) ==
    [type |-> "move", board |-> game.board,
     currentPlayer |-> game.currentPlayer, winner |-> game.winner]

\* players.find(p => p.username === username): 0 when there is none.
FindPlayer(game, username) ==
    IF game.players[1].username = username THEN 1
    ELSE IF game.players[2].username = username THEN 2
    ELSE 0

\* players.find(p => p.username !== username): 0 when there is none.
FindOpponent(game, username) ==
    IF game.players[1].username # username THEN 1
    ELSE IF game.players[2].username # username THEN 2
    ELSE 0

\* The manager's state as one value, threaded through the private methods.
Manager ==
    [games |-> games, waitingPlayers |-> waitingPlayers,
     playerToGame |-> playerToGame, disconnectedPlayers |-> disconnectedPlayers,
     timers |-> timers, tasks |-> tasks, nextId |-> nextId,
     isConnected |-> isConnected, sent |-> <<>>, calls |-> <<>>]

Becomes(m) ==
    \E next \in {m} :
        /\ games' = next.games
        /\ waitingPlayers' = next.waitingPlayers
        /\ playerToGame' = next.playerToGame
        /\ disconnectedPlayers' = next.disconnectedPlayers
        /\ timers' = next.timers
        /\ tasks' = next.tasks
        /\ nextId' = next.nextId
        /\ isConnected' = next.isConnected
        /\ sent' = next.sent
        /\ calls' = next.calls

Say(m, ws, data) == [m EXCEPT !.sent = send(@, ws, data)]

\* The waiting entries without username's.
WaitingWithout(waiting, username) ==
    SelectSeq(waiting, LAMBDA e : e.username # username)

IsWaiting(waiting, username) ==
    \E i \in 1..Len(waiting) : waiting[i].username = username

----------------------------------------------------------------------------
(* GameManager.ts: the private methods *)

\* #cleanupGame, had it left the disconnect entries of the players behind
cleanupGameKeepingEntries(m, gameId) ==
    IF gameId \notin DOMAIN m.games THEN m
    ELSE LET game == m.games[gameId]
             names == {game.players[1].username, game.players[2].username}
         IN  [m EXCEPT
                !.playerToGame = [u \in DOMAIN @ \ names |-> @[u]],
                !.games = MapDelete(@, gameId),
                !.tasks = {IF t.gameId = gameId /\ ~t.detached
                           THEN [t EXCEPT !.game = game, !.detached = TRUE]
                           ELSE t : t \in @}]

\* #cleanupGame, had it, finding no game, cleared the index and the disconnect entries
cleanupGameSweeping(m, gameId) ==
    IF gameId \notin DOMAIN m.games
    THEN [m EXCEPT !.playerToGame = EmptyMap, !.disconnectedPlayers = EmptyMap]
    ELSE LET game == m.games[gameId]
             names == {game.players[1].username, game.players[2].username}
         IN  [m EXCEPT
                !.playerToGame = [u \in DOMAIN @ \ names |-> @[u]],
                !.disconnectedPlayers = [u \in DOMAIN @ \ names |-> @[u]],
                !.games = MapDelete(@, gameId),
                !.tasks = {IF t.gameId = gameId /\ ~t.detached
                           THEN [t EXCEPT !.game = game, !.detached = TRUE]
                           ELSE t : t \in @}]

\* #cleanupGame(gameId)
cleanupGame(m, gameId) ==
    IF gameId \notin DOMAIN m.games THEN m
    ELSE LET game == m.games[gameId]
             names == {game.players[1].username, game.players[2].username}
         IN  [m EXCEPT
                !.playerToGame = [u \in DOMAIN @ \ names |-> @[u]],
                !.disconnectedPlayers = [u \in DOMAIN @ \ names |-> @[u]],
                !.games = MapDelete(@, gameId),
                !.tasks = {IF t.gameId = gameId /\ ~t.detached
                           THEN [t EXCEPT !.game = game, !.detached = TRUE]
                           ELSE t : t \in @}]

\* #handleForfeit, had it told the opponent and left the game in place
handleForfeitTellingOnly(m, gameId, username) ==
    IF gameId \notin DOMAIN m.games THEN m
    ELSE LET game == m.games[gameId]
             o == FindOpponent(game, username)
         IN  IF o # 0 /\ ~game.players[o].isBot
             THEN Say(m, game.players[o].ws,
                      [type |-> "opponentLeft", winner |-> game.players[o].color])
             ELSE m

\* #handleForfeit, had it named the colour of the player who left
handleForfeitNamingLeaver(m, gameId, username) ==
    IF gameId \notin DOMAIN m.games THEN m
    ELSE LET game == m.games[gameId]
             i == FindPlayer(game, username)
             o == FindOpponent(game, username)
             told == IF o # 0 /\ ~game.players[o].isBot
                     THEN Say(m, game.players[o].ws,
                              [type |-> "opponentLeft",
                               winner |-> game.players[i].color])
                     ELSE m
         IN  cleanupGame(told, gameId)

\* #handleForfeit(gameId, username)
handleForfeit(m, gameId, username) ==
    IF gameId \notin DOMAIN m.games THEN m
    ELSE LET game == m.games[gameId]
             o == FindOpponent(game, username)
             told == IF o # 0 /\ ~game.players[o].isBot
                     THEN Say(m, game.players[o].ws,
                              [type |-> "opponentLeft",
                               winner |-> game.players[o].color])
                     ELSE m
         IN  cleanupGame(told, gameId)

\* The db.saveGame(...) call of #broadcastGameState, which then waits for it
callSaveGame(m, t) ==
    [m EXCEPT
       !.calls = Append(@, [fn |-> "saveGame", gameId |-> t.gameId,
                            player1 |-> t.game.players[1].username,
                            player2 |-> t.game.players[2].username,
                            winner |-> t.winner,
                            moveCount |-> t.game.moveCount]),
       !.tasks = (@ \ {t}) \cup {[t EXCEPT !.kind = "saveGame"]}]

\* #broadcastGameState, had it taken a draw for a game still going on
broadcastGameStateSkippingDraws(m, game) ==
    LET p1 == game.players[1]
        p2 == game.players[2]
        m1 == IF p1.isBot THEN m ELSE Say(m, p1.ws, MoveMsg(game))
        m2 == IF p2.isBot THEN m1 ELSE Say(m1, p2.ws, MoveMsg(game))
        winner == getPlayerByColor(game, game.winner).username
        t == Task("sendGameEnd", game, TRUE, winner)
        m3 == [m2 EXCEPT
                 !.calls = Append(@, [fn |-> "sendGameEnd", gameId |-> game.id,
                                      player1 |-> p1.username, player2 |-> p2.username,
                                      winner |-> winner,
                                      moveCount |-> game.moveCount]),
                 !.tasks = @ \cup {t}]
    IN  IF game.winner = Null \/ game.winner = Draw THEN m2
        ELSE IF m.isConnected THEN m3
        ELSE callSaveGame(m3, t)

\* #broadcastGameState(game), up to the await it is parked at. sendGameEnd
\* awaits the producer only when it is connected; if not, the method runs on
\* to db.saveGame before anything else is handled.
broadcastGameState(m, game) ==
    LET p1 == game.players[1]
        p2 == game.players[2]
        m1 == IF p1.isBot THEN m ELSE Say(m, p1.ws, MoveMsg(game))
        m2 == IF p2.isBot THEN m1 ELSE Say(m1, p2.ws, MoveMsg(game))
        winner == IF game.winner = Draw THEN Null
                  ELSE getPlayerByColor(game, game.winner).username
        t == Task("sendGameEnd", game, TRUE, winner)
        m3 == [m2 EXCEPT
                 !.calls = Append(@, [fn |-> "sendGameEnd", gameId |-> game.id,
                                      player1 |-> p1.username, player2 |-> p2.username,
                                      winner |-> IF winner = Null THEN Draw ELSE winner,
                                      moveCount |-> game.moveCount]),
                 !.tasks = @ \cup {t}]
    IN  IF game.winner = Null THEN m2
        ELSE IF m.isConnected THEN m3
        ELSE callSaveGame(m3, t)

\* The two gameStart messages #startGame sends after its await. The method
\* holds the Game object itself: t.game once the table has dropped it.
tellGameStart(m, t) ==
    LET game == IF t.detached THEN t.game ELSE m.games[t.gameId]
        player1 == game.players[1]
        player2 == game.players[2]
        m1 == Say([m EXCEPT !.tasks = @ \ {t}],
                  player1.ws, GameStartMsg(game, player1, player2))
    IN  Say(m1, player2.ws, GameStartMsg(game, player2, player1))

\* #startGame(player1, player2), up to the await it is parked at. sendGameStart
\* awaits the producer only when it is connected; if not, the players are told
\* before anything else is handled.
startGame(m, player1, player2) ==
    LET gameId == randomUUID(m.nextId)
        game == NewGame(player1, player2, gameId)
        t == Task("sendGameStart", game, FALSE, Null)
        m1 == [m EXCEPT
                 !.nextId = @ + 1,
                 !.games = MapPut(@, gameId, game),
                 !.playerToGame = MapPut(MapPut(@, player1.username, gameId),
                                         player2.username, gameId),
                 !.calls = Append(@, [fn |-> "sendGameStart", gameId |-> gameId,
                                      player1 |-> player1.username,
                                      player2 |-> player2.username]),
                 !.tasks = @ \cup {t}]
    IN  IF m.isConnected THEN m1 ELSE tellGameStart(m1, t)

\* #startGameWithBot(player)
startGameWithBot(m, player) ==
    LET gameId == randomUUID(m.nextId)
        game == NewGame(player, botPlayer, gameId)
        m1 == [m EXCEPT
                 !.nextId = @ + 1,
                 !.games = MapPut(@, gameId, game),
                 !.playerToGame = MapPut(@, player.username, gameId)]
        m2 == Say(m1, player.ws, GameStartMsg(game, player, botPlayer))
    IN  IF game.currentPlayer = botPlayer.color
        THEN [m2 EXCEPT !.timers = setTimeout(@, BotMoveTimer(gameId))]
        ELSE m2

----------------------------------------------------------------------------
(* GameManager.ts: the public methods, one action each *)

\* addPlayer, had it left the timer of the waiting player armed when pairing
addPlayerLeavingTimer(username, ws) ==
    LET m == Manager
        first == waitingPlayers[1]
    IN  IF username \in DOMAIN playerToGame
        THEN Becomes(Say(m, ws, ErrorMsg("You are already in a game")))
        ELSE IF IsWaiting(waitingPlayers, username)
        THEN Becomes(Say(m, ws, ErrorMsg("You are already waiting for a match")))
        ELSE IF Len(waitingPlayers) > 0 /\ first.username # username
        THEN Becomes(startGame(
                 [m EXCEPT !.waitingPlayers = WaitingWithout(@, first.username)],
                 first.player, Human(username, ws, Yellow)))
        ELSE LET player == Human(username, ws, Red)
             IN  Becomes(Say(
                    [m EXCEPT !.timers = setTimeout(@, MatchmakingTimer(player)),
                              !.waitingPlayers =
                                  Append(@, [username |-> username, player |-> player])],
                    ws, [type |-> "waiting", timeLeft |-> 10]))

\* addPlayer, had it turned away only the players of games still going on
addPlayerAfterEnd(username, ws) ==
    LET m == Manager
        first == waitingPlayers[1]
    IN  IF /\ username \in DOMAIN playerToGame
           /\ playerToGame[username] \in DOMAIN games
           /\ games[playerToGame[username]].winner = Null
        THEN Becomes(Say(m, ws, ErrorMsg("You are already in a game")))
        ELSE IF IsWaiting(waitingPlayers, username)
        THEN Becomes(Say(m, ws, ErrorMsg("You are already waiting for a match")))
        ELSE IF Len(waitingPlayers) > 0 /\ first.username # username
        THEN Becomes(startGame(
                 [m EXCEPT !.timers = clearTimeout(@, MatchmakingTimer(first.player)),
                           !.waitingPlayers = WaitingWithout(@, first.username)],
                 first.player, Human(username, ws, Yellow)))
        ELSE LET player == Human(username, ws, Red)
             IN  Becomes(Say(
                    [m EXCEPT !.timers = setTimeout(@, MatchmakingTimer(player)),
                              !.waitingPlayers =
                                  Append(@, [username |-> username, player |-> player])],
                    ws, [type |-> "waiting", timeLeft |-> 10]))

\* addPlayer, had it queued every player, pairing none
addPlayerQueueingAll(username, ws) ==
    LET m == Manager
        player == Human(username, ws, Red)
    IN  IF username \in DOMAIN playerToGame
        THEN Becomes(Say(m, ws, ErrorMsg("You are already in a game")))
        ELSE IF IsWaiting(waitingPlayers, username)
        THEN Becomes(Say(m, ws, ErrorMsg("You are already waiting for a match")))
        ELSE Becomes(Say(
                 [m EXCEPT !.timers = setTimeout(@, MatchmakingTimer(player)),
                           !.waitingPlayers =
                               Append(@, [username |-> username, player |-> player])],
                 ws, [type |-> "waiting", timeLeft |-> 10]))

\* addPlayer, had it queued the player with no matchmaking timer
addPlayerNoFallback(username, ws) ==
    LET m == Manager
        first == waitingPlayers[1]
    IN  IF username \in DOMAIN playerToGame
        THEN Becomes(Say(m, ws, ErrorMsg("You are already in a game")))
        ELSE IF IsWaiting(waitingPlayers, username)
        THEN Becomes(Say(m, ws, ErrorMsg("You are already waiting for a match")))
        ELSE IF Len(waitingPlayers) > 0 /\ first.username # username
        THEN Becomes(startGame(
                 [m EXCEPT !.timers = clearTimeout(@, MatchmakingTimer(first.player)),
                           !.waitingPlayers = WaitingWithout(@, first.username)],
                 first.player, Human(username, ws, Yellow)))
        ELSE LET player == Human(username, ws, Red)
             IN  Becomes(Say(
                    [m EXCEPT !.waitingPlayers =
                                  Append(@, [username |-> username, player |-> player])],
                    ws, [type |-> "waiting", timeLeft |-> 10]))

\* addPlayer(username, ws)
addPlayer(username, ws) ==
    LET m == Manager
        first == waitingPlayers[1]
    IN  IF username \in DOMAIN playerToGame
        THEN Becomes(Say(m, ws, ErrorMsg("You are already in a game")))
        ELSE IF IsWaiting(waitingPlayers, username)
        THEN Becomes(Say(m, ws, ErrorMsg("You are already waiting for a match")))
        ELSE IF Len(waitingPlayers) > 0 /\ first.username # username
        THEN Becomes(startGame(
                 [m EXCEPT !.timers = clearTimeout(@, MatchmakingTimer(first.player)),
                           !.waitingPlayers = WaitingWithout(@, first.username)],
                 first.player, Human(username, ws, Yellow)))
        ELSE LET player == Human(username, ws, Red)
             IN  Becomes(Say(
                    [m EXCEPT !.timers = setTimeout(@, MatchmakingTimer(player)),
                              !.waitingPlayers =
                                  Append(@, [username |-> username, player |-> player])],
                    ws, [type |-> "waiting", timeLeft |-> 10]))

\* The callback, had it left the waiting entry in place
matchmakingTimeoutKeepingEntry(t) ==
    /\ t.kind = "matchmaking"
    /\ BagIn(t, timers)
    /\ Becomes(startGameWithBot(
           [Manager EXCEPT !.timers = clearTimeout(@, t)], t.player))

\* The callback of the matchmaking timer armed by addPlayer
matchmakingTimeout(t) ==
    /\ t.kind = "matchmaking"
    /\ BagIn(t, timers)
    /\ Becomes(startGameWithBot(
           [Manager EXCEPT !.timers = clearTimeout(@, t),
                           !.waitingPlayers = WaitingWithout(@, t.username)],
           t.player))

\* #startGame after its await: both players are told
startGameResumed(t) ==
    /\ t \in tasks
    /\ t.kind = "sendGameStart"
    /\ Becomes(tellGameStart(Manager, t))

\* makeMove, had it broadcast the game state whatever Game.makeMove returned
makeMoveAlwaysBroadcasting(username, gameId, column) ==
    LET m == Manager
    IN  IF gameId \notin DOMAIN games THEN Becomes(m)
        ELSE LET game == games[gameId]
                 i == FindPlayer(game, username)
             IN  IF i = 0 THEN Becomes(m)
                 ELSE LET res == Game_makeMove(game, column, game.players[i].color)
                          after == res.game
                          m1 == broadcastGameState(
                                    [m EXCEPT !.games[gameId] = after], after)
                      IN  IF after.winner = Null
                             /\ getPlayerByColor(after, after.currentPlayer).isBot
                          THEN Becomes([m1 EXCEPT
                                   !.timers = setTimeout(@, BotMoveTimer(gameId))])
                          ELSE Becomes(m1)

\* makeMove, had the games of the table shared one board
makeMoveOnSharedBoard(username, gameId, column) ==
    LET m == Manager
    IN  IF gameId \notin DOMAIN games THEN Becomes(m)
        ELSE LET game == games[gameId]
                 i == FindPlayer(game, username)
             IN  IF i = 0 THEN Becomes(m)
                 ELSE LET res == Game_makeMove(game, column, game.players[i].color)
                          after == res.game
                          shared == [g \in DOMAIN games |->
                                        IF g = gameId THEN after
                                        ELSE [games[g] EXCEPT !.board = after.board]]
                          m1 == broadcastGameState([m EXCEPT !.games = shared], after)
                      IN  IF ~res.ok THEN Becomes(m)
                          ELSE IF after.winner = Null
                                  /\ getPlayerByColor(after, after.currentPlayer).isBot
                          THEN Becomes([m1 EXCEPT
                                   !.timers = setTimeout(@, BotMoveTimer(gameId))])
                          ELSE Becomes(m1)

\* makeMove, had it left the bot's answer to the next request
makeMoveNotAskingBot(username, gameId, column) ==
    LET m == Manager
    IN  IF gameId \notin DOMAIN games THEN Becomes(m)
        ELSE LET game == games[gameId]
                 i == FindPlayer(game, username)
             IN  IF i = 0 THEN Becomes(m)
                 ELSE LET res == Game_makeMove(game, column, game.players[i].color)
                          after == res.game
                          m1 == broadcastGameState(
                                    [m EXCEPT !.games[gameId] = after], after)
                      IN  IF ~res.ok THEN Becomes(m) ELSE Becomes(m1)

\* makeMove, had it let a name with no seat in the game play the colour to move
makeMoveAnySeat(username, gameId, column) ==
    LET m == Manager
    IN  IF gameId \notin DOMAIN games THEN Becomes(m)
        ELSE LET game == games[gameId]
                 i == FindPlayer(game, username)
                 color == IF i = 0 THEN game.currentPlayer ELSE game.players[i].color
                 res == Game_makeMove(game, column, color)
                 after == res.game
                 m1 == broadcastGameState(
                           [m EXCEPT !.games[gameId] = after], after)
             IN  IF ~res.ok THEN Becomes(m)
                 ELSE IF after.winner = Null
                         /\ getPlayerByColor(after, after.currentPlayer).isBot
                 THEN Becomes([m1 EXCEPT
                          !.timers = setTimeout(@, BotMoveTimer(gameId))])
                 ELSE Becomes(m1)

\* makeMove(username, gameId, column)
makeMove(username, gameId, column) ==
    LET m == Manager
    IN  IF gameId \notin DOMAIN games THEN Becomes(m)
        ELSE LET game == games[gameId]
                 i == FindPlayer(game, username)
             IN  IF i = 0 THEN Becomes(m)
                 ELSE LET res == Game_makeMove(game, column, game.players[i].color)
                          after == res.game
                          m1 == broadcastGameState(
                                    [m EXCEPT !.games[gameId] = after], after)
                      IN  IF ~res.ok THEN Becomes(m)
                          ELSE IF after.winner = Null
                                  /\ getPlayerByColor(after, after.currentPlayer).isBot
                          THEN Becomes([m1 EXCEPT
                                   !.timers = setTimeout(@, BotMoveTimer(gameId))])
                          ELSE Becomes(m1)

\* #makeBotMove(gameId), the callback of the bot-move timer
makeBotMove(t) ==
    /\ t.kind = "botMove"
    /\ BagIn(t, timers)
    /\ LET m == [Manager EXCEPT !.timers = clearTimeout(@, t)]
           gameId == t.gameId
       IN  IF gameId \notin DOMAIN games \/ games[gameId].winner # Null
           THEN Becomes(m)
           ELSE LET game == games[gameId]
                    bot == getPlayerByColor(game, game.currentPlayer)
                IN  IF ~bot.isBot THEN Becomes(m)
                    ELSE \E column \in {getBestMove(game.board, bot.color)} :
                         \E res \in {Game_makeMove(game, column, bot.color)} :
                            IF res.ok
                            THEN Becomes(broadcastGameState(
                                     [m EXCEPT !.games[gameId] = res.game], res.game))
                            ELSE Becomes(m)

\* #broadcastGameState after "await kafkaProducer.sendGameEnd": db.saveGame is called
sendGameEndResumed(t) ==
    /\ t \in tasks
    /\ t.kind = "sendGameEnd"
    /\ Becomes(callSaveGame(Manager, t))

\* #broadcastGameState after "await db.saveGame" resolved: the cleanup is scheduled
saveGameResolved(t) ==
    /\ t \in tasks
    /\ t.kind = "saveGame"
    /\ Becomes([Manager EXCEPT !.tasks = @ \ {t},
                               !.timers = setTimeout(@, CleanupTimer(t.gameId))])

\* db.saveGame rethrows a failed query: #broadcastGameState ends there
saveGameRejected(t) ==
    /\ t \in tasks
    /\ t.kind = "saveGame"
    /\ Becomes([Manager EXCEPT !.tasks = @ \ {t}])

\* The callback of the cleanup timer
cleanupTimeout(t) ==
    /\ t.kind = "cleanup"
    /\ BagIn(t, timers)
    /\ Becomes(cleanupGame([Manager EXCEPT !.timers = clearTimeout(@, t)], t.gameId))

\* handleDisconnect, had it taken a name with no game out of the waiting queue
handleDisconnectLeavingQueue(username) ==
    LET m == Manager
    IN  IF username \notin DOMAIN playerToGame
        THEN Becomes([m EXCEPT !.waitingPlayers = WaitingWithout(@, username)])
        ELSE LET gameId == playerToGame[username]
             IN  IF gameId \notin DOMAIN games THEN Becomes(m)
                 ELSE LET game == games[gameId]
                          i == FindPlayer(game, username)
                          o == FindOpponent(game, username)
                          timeout == ReconnectTimer(gameId, username)
                          m1 == [m EXCEPT
                                   !.timers = setTimeout(@, timeout),
                                   !.disconnectedPlayers = MapPut(@, username,
                                       [gameId |-> gameId,
                                        color |-> game.players[i].color])]
                      IN  IF i = 0 THEN Becomes(m)
                          ELSE IF o # 0 /\ ~game.players[o].isBot
                          THEN Becomes(Say(m1, game.players[o].ws,
                                   ErrorMsg(<<username, "disconnected">>)))
                          ELSE Becomes(m1)

\* handleDisconnect, had it taken the connection out of the seat of the game
handleDisconnectEmptyingSeat(username) ==
    LET m == Manager
    IN  IF username \notin DOMAIN playerToGame THEN Becomes(m)
        ELSE LET gameId == playerToGame[username]
             IN  IF gameId \notin DOMAIN games THEN Becomes(m)
                 ELSE LET game == games[gameId]
                          i == FindPlayer(game, username)
                          o == FindOpponent(game, username)
                          timeout == ReconnectTimer(gameId, username)
                          m1 == [m EXCEPT
                                   !.games[gameId].players[i].ws = NoWs,
                                   !.timers = setTimeout(@, timeout),
                                   !.disconnectedPlayers = MapPut(@, username,
                                       [gameId |-> gameId,
                                        color |-> game.players[i].color])]
                      IN  IF i = 0 THEN Becomes(m)
                          ELSE IF o # 0 /\ ~game.players[o].isBot
                          THEN Becomes(Say(m1, game.players[o].ws,
                                   ErrorMsg(<<username, "disconnected">>)))
                          ELSE Becomes(m1)

\* handleDisconnect(username)
handleDisconnect(username) ==
    LET m == Manager
    IN  IF username \notin DOMAIN playerToGame THEN Becomes(m)
        ELSE LET gameId == playerToGame[username]
             IN  IF gameId \notin DOMAIN games THEN Becomes(m)
                 ELSE LET game == games[gameId]
                          i == FindPlayer(game, username)
                          o == FindOpponent(game, username)
                          timeout == ReconnectTimer(gameId, username)
                          m1 == [m EXCEPT
                                   !.timers = setTimeout(@, timeout),
                                   !.disconnectedPlayers = MapPut(@, username,
                                       [gameId |-> gameId,
                                        color |-> game.players[i].color])]
                      IN  IF i = 0 THEN Becomes(m)
                          ELSE IF o # 0 /\ ~game.players[o].isBot
                          THEN Becomes(Say(m1, game.players[o].ws,
                                   ErrorMsg(<<username, "disconnected">>)))
                          ELSE Becomes(m1)

\* The callback of the reconnect timer armed by handleDisconnect
reconnectTimeout(t) ==
    /\ t.kind = "reconnect"
    /\ BagIn(t, timers)
    /\ Becomes(handleForfeit([Manager EXCEPT !.timers = clearTimeout(@, t)],
                             t.gameId, t.username))

\* rejoinGame, had it told the player that the turn is theirs
rejoinGameOwnTurn(username, gameId, ws) ==
    LET m == Manager
    IN  IF username \notin DOMAIN disconnectedPlayers
           \/ disconnectedPlayers[username].gameId # gameId
        THEN Becomes(Say(m, ws, ErrorMsg("Cannot rejoin this game")))
        ELSE LET m1 == [m EXCEPT
                          !.timers = clearTimeout(@, ReconnectTimer(gameId, username)),
                          !.disconnectedPlayers = MapDelete(@, username)]
             IN  IF gameId \notin DOMAIN games
                 THEN Becomes(Say(m1, ws, ErrorMsg("Game no longer exists")))
                 ELSE LET game == games[gameId]
                          i == FindPlayer(game, username)
                          o == FindOpponent(game, username)
                      IN  IF i = 0 THEN Becomes(m1)
                          ELSE Becomes(Say(
                                 [m1 EXCEPT !.games[gameId].players[i].ws = ws],
                                 ws,
                                 [type |-> "rejoinSuccess", gameId |-> gameId,
                                  yourColor |-> game.players[i].color,
                                  currentPlayer |-> game.players[i].color,
                                  board |-> game.board,
                                  opponent |-> IF o = 0 THEN Null
                                               ELSE game.players[o].username]))

\* rejoinGame, had it not compared the game of the disconnect entry
rejoinGameAnyGame(username, gameId, ws) ==
    LET m == Manager
    IN  IF username \notin DOMAIN disconnectedPlayers
        THEN Becomes(Say(m, ws, ErrorMsg("Cannot rejoin this game")))
        ELSE LET m1 == [m EXCEPT
                          !.timers = clearTimeout(@, ReconnectTimer(gameId, username)),
                          !.disconnectedPlayers = MapDelete(@, username)]
             IN  IF gameId \notin DOMAIN games
                 THEN Becomes(Say(m1, ws, ErrorMsg("Game no longer exists")))
                 ELSE LET game == games[gameId]
                          i == FindPlayer(game, username)
                          o == FindOpponent(game, username)
                      IN  IF i = 0 THEN Becomes(m1)
                          ELSE Becomes(Say(
                                 [m1 EXCEPT !.games[gameId].players[i].ws = ws],
                                 ws,
                                 [type |-> "rejoinSuccess", gameId |-> gameId,
                                  yourColor |-> game.players[i].color,
                                  currentPlayer |-> game.currentPlayer,
                                  board |-> game.board,
                                  opponent |-> IF o = 0 THEN Null
                                               ELSE game.players[o].username]))

\* rejoinGame(username, gameId, ws)
rejoinGame(username, gameId, ws) ==
    LET m == Manager
    IN  IF username \notin DOMAIN disconnectedPlayers
           \/ disconnectedPlayers[username].gameId # gameId
        THEN Becomes(Say(m, ws, ErrorMsg("Cannot rejoin this game")))
        ELSE LET m1 == [m EXCEPT
                          !.timers = clearTimeout(@, ReconnectTimer(gameId, username)),
                          !.disconnectedPlayers = MapDelete(@, username)]
             IN  IF gameId \notin DOMAIN games
                 THEN Becomes(Say(m1, ws, ErrorMsg("Game no longer exists")))
                 ELSE LET game == games[gameId]
                          i == FindPlayer(game, username)
                          o == FindOpponent(game, username)
                      IN  IF i = 0 THEN Becomes(m1)
                          ELSE Becomes(Say(
                                 [m1 EXCEPT !.games[gameId].players[i].ws = ws],
                                 ws,
                                 [type |-> "rejoinSuccess", gameId |-> gameId,
                                  yourColor |-> game.players[i].color,
                                  currentPlayer |-> game.currentPlayer,
                                  board |-> game.board,
                                  opponent |-> IF o = 0 THEN Null
                                               ELSE game.players[o].username]))

\* removePlayer, had it left the timer of a waiting player armed
removePlayerLeavingTimer(username) ==
    LET m == Manager
        waiting == SelectSeq(waitingPlayers, LAMBDA e : e.username = username)
        m1 == IF Len(waiting) > 0
              THEN [m EXCEPT !.waitingPlayers = WaitingWithout(@, username)]
              ELSE m
        m2 == IF username \in DOMAIN disconnectedPlayers
              THEN [m1 EXCEPT
                      !.timers = clearTimeout(@,
                          ReconnectTimer(disconnectedPlayers[username].gameId, username)),
                      !.disconnectedPlayers = MapDelete(@, username)]
              ELSE m1
        m3 == IF username \in DOMAIN playerToGame
              THEN handleForfeit(m2, playerToGame[username], username)
              ELSE m2
    IN  Becomes([m3 EXCEPT !.playerToGame = MapDelete(@, username)])

\* removePlayer(username)
removePlayer(username) ==
    LET m == Manager
        waiting == SelectSeq(waitingPlayers, LAMBDA e : e.username = username)
        m1 == IF Len(waiting) > 0
              THEN [m EXCEPT
                      !.timers = clearTimeout(@, MatchmakingTimer(waiting[1].player)),
                      !.waitingPlayers = WaitingWithout(@, username)]
              ELSE m
        m2 == IF username \in DOMAIN disconnectedPlayers
              THEN [m1 EXCEPT
                      !.timers = clearTimeout(@,
                          ReconnectTimer(disconnectedPlayers[username].gameId, username)),
                      !.disconnectedPlayers = MapDelete(@, username)]
              ELSE m1
        m3 == IF username \in DOMAIN playerToGame
              THEN handleForfeit(m2, playerToGame[username], username)
              ELSE m2
    IN  Becomes([m3 EXCEPT !.playerToGame = MapDelete(@, username)])

----------------------------------------------------------------------------
(* The specifications *)

\* The columns a player asks for: one on the board and one off each edge,
\* or every column and one off each edge.
MoveCols == {-1, 0, COLS}
AnyCols == (-1)..COLS

\* A user joins with its first socket and comes back with its second.
JoinConn(u) == <<u, Sockets[1]>>
RejoinConn(u) == <<u, Sockets[2]>>

AllTimers == BagToSet(timers)

\* randomUUID has an id of the model left to hand out.
IdsLeft == nextId < Len(Uuids)

\* addPlayer(username, ws) finds another player waiting and starts a game.
Pairs(username) ==
    /\ username \notin DOMAIN playerToGame
    /\ ~IsWaiting(waitingPlayers, username)
    /\ Len(waitingPlayers) > 0

\* A client is told a game's id by gameStart; #startGame has sent it.
StartTold(gameId) == \A t \in tasks : ~(t.kind = "sendGameStart" /\ t.gameId = gameId)

\* The bound on the discs explored: a move is asked for in the opening of a
\* game (its first bound discs) and in its endgame (its last LateCells cells).
MoveInBound(gameId, bound) ==
    gameId \in DOMAIN games =>
        /\ StartTold(gameId)
        /\ \/ games[gameId].winner # Null
           \/ games[gameId].moveCount < bound
           \/ games[gameId].moveCount >= ROWS * COLS - LateCells

\* The bound on the reconnect timers armed at once for one seat.
GraceInBound(username, bound) ==
    username \in DOMAIN playerToGame =>
        CopiesIn(ReconnectTimer(playerToGame[username], username), timers) < bound

\* The manager after construction
EmptyRegistry ==
    /\ games = EmptyMap
    /\ waitingPlayers = <<>>
    /\ playerToGame = EmptyMap
    /\ disconnectedPlayers = EmptyMap
    /\ timers = EmptyBag
    /\ tasks = {}
    /\ nextId = 0
    /\ sent = <<>>
    /\ calls = <<>>

\* The requests to join and the matchmaking timers
Match ==
    \/ \E u \in Users : (Pairs(u) => IdsLeft) /\ addPlayer(u, JoinConn(u))
    \/ \E t \in AllTimers : IdsLeft /\ matchmakingTimeout(t)

\* The requests of the players of a game and the game's timers
Session(cols, moves, grace) ==
    \/ \E u \in Users, g \in GameIds, c \in cols :
          MoveInBound(g, moves) /\ makeMove(u, g, c)
    \/ \E t \in AllTimers : MoveInBound(t.gameId, moves) /\ makeBotMove(t)
    \/ \E u \in Users : GraceInBound(u, grace) /\ handleDisconnect(u)
    \/ \E t \in AllTimers : reconnectTimeout(t)
    \/ \E u \in Users, g \in GameIds : rejoinGame(u, g, RejoinConn(u))
    \/ \E u \in Users : removePlayer(u)

\* The database's answer and the cleanup of a game that has ended
Finish ==
    \/ \E t \in tasks : saveGameResolved(t)
    \/ \E t \in tasks : saveGameRejected(t)
    \/ \E t \in AllTimers : cleanupTimeout(t)

\* The producer's answers, when it is connected
Produce ==
    \/ \E t \in tasks : startGameResumed(t)
    \/ \E t \in tasks : sendGameEndResumed(t)

\* The server from its start, its Kafka producer not connected: the
\* matchmaking and the opening of each game.
Init == EmptyRegistry /\ isConnected = FALSE
Next == Match \/ Session(MoveCols, MaxMoves, MaxGrace)
Spec == Init /\ [][Next]_vars

----------------------------------------------------------------------------
(* Games played out of the model's sight, move by move through makeMove *)

\* The game after the players, in turn, ask for the columns of line.
RECURSIVE PlayLine(_, _, _)
PlayLine(game, line, i) ==
    IF game.winner # Null \/ i > Len(line) THEN game
    ELSE LET next == CHOOSE g \in {Game_makeMove(game, line[i], game.currentPlayer).game} : TRUE
         IN  PlayLine(next, line, i + 1)

\* The game against the bot after the human asks for the columns of line,
\* the bot answering each with getBestMove.
RECURSIVE PlayBot(_, _, _)
PlayBot(game, line, i) ==
    IF game.winner # Null \/ i > Len(line) THEN game
    ELSE LET mine == CHOOSE g \in {Game_makeMove(game, line[i], Red).game} : TRUE
             reply == CHOOSE c \in {getBestMove(mine.board, Yellow)} : TRUE
             next == CHOOSE g \in {Game_makeMove(mine, reply, Yellow).game} : TRUE
         IN  PlayBot(next, line, i + 1)

\* Two games of two humans, each with six cells left and no winner yet.
LateLines ==
    {<<6, 4, 1, 5, 0, 0, 4, 4, 1, 4, 6, 1, 5, 5, 2, 6, 5, 2, 0, 3, 2, 2, 2, 2,
       5, 6, 5, 3, 3, 6, 1, 4, 6, 3, 0, 0>>,
     <<0, 5, 4, 1, 4, 6, 2, 4, 0, 2, 6, 2, 1, 4, 0, 0, 0, 3, 4, 5, 6, 0, 5, 2,
       2, 6, 4, 3, 5, 6, 1, 5, 3, 6, 1, 2>>}

\* The human's moves of a game against the bot, six cells left, no winner yet.
LateBotLines ==
    {<<0, 1, 1, 5, 1, 0, 2, 0, 3, 6, 5, 4, 5, 4, 0, 1, 3, 5>>}

LateGames ==
    {PlayLine(NewGame(Human("a", JoinConn("a"), Red),
                      Human("b", JoinConn("b"), Yellow), randomUUID(0)),
              line, 1) : line \in LateLines}
    \cup
    {PlayBot(NewGame(Human("a", JoinConn("a"), Red), botPlayer, randomUUID(0)),
             line, 1) : line \in LateBotLines}

\* The manager with one game in its endgame and nothing else going on.
LateRegistry ==
    /\ \E game \in LateGames :
          /\ games = MapPut(EmptyMap, game.id, game)
          /\ playerToGame =
                [u \in {p.username : p \in {game.players[1], game.players[2]}}
                      \ (IF game.players[2].isBot THEN {BotName} ELSE {})
                   |-> game.id]
    /\ waitingPlayers = <<>>
    /\ disconnectedPlayers = EmptyMap
    /\ timers = EmptyBag
    /\ tasks = {}
    /\ nextId = 1
    /\ sent = <<>>
    /\ calls = <<>>

\* The server with that game, its Kafka producer not connected
InitEnd == LateRegistry /\ isConnected = FALSE
NextEnd == Session(AnyCols, MaxMoves, MaxGrace) \/ Finish
SpecEnd == InitEnd /\ [][NextEnd]_vars

\* The columns of the opening explored in full, and one off each edge
GameCols == (-1)..3 \cup {COLS}

\* The server once "a" has joined and "b" has been paired with "a": one game,
\* nothing on its board, both players told.
InitGame ==
    LET m == startGame(
                 [games |-> EmptyMap, waitingPlayers |-> <<>>,
                  playerToGame |-> EmptyMap, disconnectedPlayers |-> EmptyMap,
                  timers |-> EmptyBag, tasks |-> {}, nextId |-> 0,
                  isConnected |-> FALSE, sent |-> <<>>, calls |-> <<>>],
                 Human("a", JoinConn("a"), Red), Human("b", JoinConn("b"), Yellow))
    IN  /\ games = m.games
        /\ waitingPlayers = m.waitingPlayers
        /\ playerToGame = m.playerToGame
        /\ disconnectedPlayers = m.disconnectedPlayers
        /\ timers = m.timers
        /\ tasks = m.tasks
        /\ nextId = m.nextId
        /\ isConnected = m.isConnected
        /\ sent = m.sent
        /\ calls = m.calls

\* The two players of that game ask for moves, and nothing else happens.
NextGame ==
    \E u \in Users, g \in GameIds, c \in GameCols :
        MoveInBound(g, MaxPlies) /\ makeMove(u, g, c)
SpecGame == InitGame /\ [][NextGame]_vars

\* The server whose Kafka producer is connected
InitKafka == EmptyRegistry /\ isConnected = TRUE
NextKafka == Match \/ Session(MoveCols, MaxMoves, MaxGrace) \/ Finish \/ Produce
SpecKafka == InitKafka /\ [][NextKafka]_vars

----------------------------------------------------------------------------
(* The endgame of a game against the bot, while other players come and go *)

\* The discs a game started during the endgame may take
MaxOpening == 0

InitLate ==
    /\ InitEnd
    /\ \A g \in DOMAIN games : games[g].players[2].isBot
NextLate == Match \/ Session(AnyCols, MaxOpening, MaxGrace) \/ Finish
SpecLate == InitLate /\ [][NextLate]_vars

----------------------------------------------------------------------------
(* One game of two humans whose connections are lost before the first disc *)

\* The connection of a player of a game with no disc yet is lost.
Unplayed(username) ==
    username \in DOMAIN playerToGame /\ playerToGame[username] \in DOMAIN games =>
        games[playerToGame[username]].moveCount = 0

NextAway ==
    \/ \E u \in Users, g \in GameIds, c \in MoveCols :
          MoveInBound(g, MaxMoves) /\ makeMove(u, g, c)
    \/ \E u \in Users :
          Unplayed(u) /\ GraceInBound(u, MaxGrace) /\ handleDisconnect(u)
    \/ \E t \in AllTimers : reconnectTimeout(t)
    \/ \E u \in Users, g \in GameIds : rejoinGame(u, g, RejoinConn(u))
SpecAway == InitGame /\ [][NextAway]_vars

----------------------------------------------------------------------------
(* One game of two humans, each name used by more than one connection *)

\* The connections of one name that close before the name rejoins
MaxCloses == 2

NextTwice ==
    \/ \E u \in Users, g \in GameIds, c \in MoveCols :
          MoveInBound(g, MaxMoves) /\ makeMove(u, g, c)
    \/ \E u \in Users : GraceInBound(u, MaxCloses) /\ handleDisconnect(u)
    \/ \E t \in AllTimers : reconnectTimeout(t)
    \/ \E u \in Users, g \in GameIds : rejoinGame(u, g, RejoinConn(u))
    \/ \E u \in Users : removePlayer(u)
SpecTwice == InitGame /\ [][NextTwice]_vars

----------------------------------------------------------------------------
(* The end of a game, the Kafka producer connected or not *)

InitSave == LateRegistry /\ isConnected \in BOOLEAN
NextSave == NextEnd \/ \E t \in tasks : sendGameEndResumed(t)
SpecSave == InitSave /\ [][NextSave]_vars

----------------------------------------------------------------------------
(* The endgame of a game against the bot under Node's scheduling: a timer
   that stays armed fires, and the database answers, well or badly *)

NextFair == NextEnd
Fairness ==
    /\ WF_vars(\E t \in AllTimers : makeBotMove(t))
    /\ WF_vars(\E t \in AllTimers : reconnectTimeout(t))
    /\ WF_vars(\E t \in AllTimers : cleanupTimeout(t))
    /\ WF_vars(\E t \in tasks : saveGameResolved(t) \/ saveGameRejected(t))
SpecFair == InitLate /\ [][NextFair]_vars /\ Fairness

----------------------------------------------------------------------------
(* A game against the bot in its opening, the bot to move *)

\* The moves the human has made when the model takes the game up, and the
\* disc up to which the human goes on
MaxHuman == 4
MaxBotPlies == 9

\* The columns the human has asked for, move by move
HumanLines == [1..MaxHuman -> ColIdx]

\* The game after the human's moves of line, the bot having answered each but
\* the last with getBestMove.
BotTurn(line) ==
    LET before == PlayBot(NewGame(Human("a", JoinConn("a"), Red), botPlayer,
                                  randomUUID(0)),
                          SubSeq(line, 1, Len(line) - 1), 1)
    IN  Game_makeMove(before, line[Len(line)], Red).game

BotTurns(lines) == {game \in {BotTurn(line) : line \in lines} :
                game.winner = Null /\ game.currentPlayer = Yellow}

\* The server right after makeMove has taken the human's last move: the human
\* is told the board and the bot-move timer is armed.
InitBot ==
    /\ \E game \in BotTurns(HumanLines) :
          /\ games = MapPut(EmptyMap, game.id, game)
          /\ playerToGame = MapPut(EmptyMap, "a", game.id)
          /\ timers = setTimeout(EmptyBag, BotMoveTimer(game.id))
          /\ sent = <<[to |-> JoinConn("a"), data |-> MoveMsg(game)]>>
    /\ waitingPlayers = <<>>
    /\ disconnectedPlayers = EmptyMap
    /\ tasks = {}
    /\ nextId = 1
    /\ isConnected = FALSE
    /\ calls = <<>>

NextBot ==
    \/ \E t \in AllTimers : makeBotMove(t)
    \/ \E c \in ColIdx, g \in GameIds :
          MoveInBound(g, MaxBotPlies) /\ makeMove("a", g, c)
SpecBot == InitBot /\ [][NextBot]_vars

\* The matchmaking from the server's start, the timers firing in the end:
\* Node runs the callback of every timer that stays armed. A request to join
\* is taken while randomUUID has an id of the model left, so that the game of
\* a waiting player, with another player or with the bot, has its id.
NextWait ==
    \/ \E u \in Users : IdsLeft /\ addPlayer(u, JoinConn(u))
    \/ \E t \in AllTimers : IdsLeft /\ matchmakingTimeout(t)
    \/ \E u \in Users : GraceInBound(u, MaxGrace) /\ handleDisconnect(u)
    \/ \E t \in AllTimers : reconnectTimeout(t)
    \/ \E u \in Users, g \in GameIds : rejoinGame(u, g, RejoinConn(u))
    \/ \E u \in Users : removePlayer(u)
FairWait ==
    /\ WF_vars(\E t \in AllTimers : IdsLeft /\ matchmakingTimeout(t))
    /\ WF_vars(\E t \in AllTimers : reconnectTimeout(t))
SpecWait == Init /\ [][NextWait]_vars /\ FairWait

\* The matchmaking with the Kafka producer connected: #startGame is parked at
\* its await while the server handles other requests, and goes on later.
NextStart ==
    \/ NextWait
    \/ \E t \in tasks : startGameResumed(t)
SpecStart == InitKafka /\ [][NextStart]_vars

\* The names a client may join with: #handleJoin takes any name that is not
\* empty, the name of the bot too.
Names == Users \cup {BotName}

\* The matchmaking and the leaving of players who may bear the bot's name
NextNames ==
    \/ \E u \in Names : IdsLeft /\ addPlayer(u, JoinConn(u))
    \/ \E t \in AllTimers : IdsLeft /\ matchmakingTimeout(t)
    \/ \E u \in Names : GraceInBound(u, MaxGrace) /\ handleDisconnect(u)
    \/ \E t \in AllTimers : reconnectTimeout(t)
    \/ \E u \in Names : removePlayer(u)
SpecNames == Init /\ [][NextNames]_vars

----------------------------------------------------------------------------
(* The properties *)

\* The games the table holds before and after a step
Kept == DOMAIN games \cap DOMAIN games'

Cells == RowIdx \X ColIdx
At(board, cell) == board[cell[1]][cell[2]]

\* The cells of game g a step changes
Changed(g) ==
    IF games'[g].board = games[g].board THEN {}
    ELSE {cell \in Cells : At(games'[g].board, cell) # At(games[g].board, cell)}

SameGame(g) ==
    /\ games'[g].board = games[g].board
    /\ games'[g].winner = games[g].winner
    /\ games'[g].moveCount = games[g].moveCount
    /\ games'[g].currentPlayer = games[g].currentPlayer

\* The runs of four cells on the board, along a row, a column and each diagonal
Axes == {<<0, 1>>, <<1, 0>>, <<1, 1>>, <<1, -1>>}
Diagonals == {<<1, 1>>, <<1, -1>>}
Run(cell, axis) ==
    {<<cell[1] + k * axis[1], cell[2] + k * axis[2]>> : k \in 0..(WIN_LENGTH - 1)}
Runs(axes) == {run \in {Run(cell, axis) : cell \in Cells, axis \in axes} : run \subseteq Cells}
AllRuns == Runs(Axes)
DiagonalRuns == Runs(Diagonals)

FourOf(board, color) ==
    \E run \in AllRuns : \A cell \in run : At(board, cell) = color
FourThrough(board, at, color) ==
    \E run \in AllRuns : at \in run /\ \A cell \in run : At(board, cell) = color

TopRowFull(board) == \A c \in ColIdx : board[0][c] # Null
ColumnFull(board, c) == \A r \in RowIdx : board[r][c] # Null

\* The seat of username in game g, the colour it plays, and why the game
\* turns down its move to column c
SeatOf(g, username) == FindPlayer(games[g], username)
ColorOf(g, username) == games[g].players[SeatOf(g, username)].color
Seated(g, username) == g \in DOMAIN games /\ SeatOf(g, username) # 0
TurnedDown(g, username, c) ==
    \/ games[g].winner # Null
    \/ ColorOf(g, username) # games[g].currentPlayer
    \/ c \notin 0..6
    \/ games[g].board[0][c] # Null

\* C1: once a game has a winner or is drawn, no step changes its board, its
\* winner, its moveCount or its turn for as long as the table holds it.
C1_NoStepAfterEnd ==
    \A g \in Kept : games[g].winner # Null => SameGame(g)
C1_TerminalIsFinal == [][C1_NoStepAfterEnd]_vars

\* C1's case: an ended game whose save has resolved, one of its players
\* disconnected.
C1_Witness ==
    \E g \in DOMAIN games :
        /\ games[g].winner # Null
        /\ BagIn(CleanupTimer(g), timers)
        /\ \E u \in DOMAIN disconnectedPlayers : disconnectedPlayers[u].gameId = g

\* C2: a move wins for the mover exactly when the disc it places lies in a
\* run of four of its colour; a game without a winner has no run of four.
C2_NoFourInProgress ==
    \A g \in DOMAIN games :
        games[g].winner = Null =>
            ~FourOf(games[g].board, Red) /\ ~FourOf(games[g].board, Yellow)
C2_WinExactly ==
    \A g \in Kept : \A cell \in Changed(g) :
        (games'[g].winner = games[g].currentPlayer)
            <=> FourThrough(games'[g].board, cell, games[g].currentPlayer)
C2_WinsExactlyOnFour == []C2_NoFourInProgress /\ [][C2_WinExactly]_vars

\* C2's case: a game won with a run of four along a diagonal.
C2_Witness ==
    \E g \in DOMAIN games :
        /\ games[g].winner \in PlayerColor
        /\ \E run \in DiagonalRuns :
              \A cell \in run : At(games[g].board, cell) = games[g].winner

\* C3: Game.makeMove(column, color) returns true if and only if the game has
\* no winner, color has the turn, column is in 0..6 and its top cell is empty.
C3_AcceptedIff ==
    \A g \in DOMAIN games : \A c \in AnyCols, color \in PlayerColor :
        Game_makeMove(games[g], c, color).ok
            <=> /\ games[g].winner = Null
                /\ color = games[g].currentPlayer
                /\ c \in 0..6
                /\ games[g].board[0][c] = Null

\* C3's case: a game in progress, moves made, one column full and one open.
C3_Witness ==
    \E g \in DOMAIN games :
        /\ games[g].winner = Null
        /\ games[g].moveCount > ROWS * COLS - LateCells
        /\ \E c \in ColIdx : ColumnFull(games[g].board, c)
        /\ \E c \in ColIdx : games[g].board[0][c] = Null

\* C4: a move of the seat that has not the turn, to a full column, off the
\* board or in an ended game changes no game and sends nothing, each time.
C4_Untouched ==
    /\ games' = games
    /\ sent' = <<>>
    /\ calls' = <<>>
    /\ timers' = timers
C4_RejectedChangesNothing ==
    \/ C4_Untouched
    \/ \A u \in Users, g \in GameIds, c \in AnyCols :
          ~(Seated(g, u) /\ TurnedDown(g, u, c) /\ makeMove(u, g, c))
C4_RejectedMoveIsSilent == [][C4_RejectedChangesNothing]_vars

\* C4's case: a game in progress, moves made, and the last request sent nothing.
C4_Witness ==
    \E g \in DOMAIN games :
        /\ games[g].winner = Null
        /\ games[g].moveCount > 0
        /\ sent = <<>>

\* C5: a move that fills the top row and leaves no run of four draws the
\* game; no game with a full top row is in progress.
C5_FullMeansOver ==
    \A g \in DOMAIN games : TopRowFull(games[g].board) => games[g].winner # Null
C5_LastCellDraws ==
    \A g \in Kept :
        /\ ~TopRowFull(games[g].board)
        /\ TopRowFull(games'[g].board)
        /\ ~FourOf(games'[g].board, Red)
        /\ ~FourOf(games'[g].board, Yellow)
        => games'[g].winner = Draw
C5_DrawOnLastCell == []C5_FullMeansOver /\ [][C5_LastCellDraws]_vars

\* C5's case: a drawn game, its top row full.
C5_Witness ==
    \E g \in DOMAIN games :
        games[g].winner = Draw /\ TopRowFull(games[g].board)

\* C6: a move that fills the top row and puts its disc in a run of four wins
\* the game for the mover; it is not a draw.
C6_WinOnLastCell ==
    \A g \in Kept : \A cell \in Changed(g) :
        /\ ~TopRowFull(games[g].board)
        /\ TopRowFull(games'[g].board)
        /\ FourThrough(games'[g].board, cell, games[g].currentPlayer)
        => /\ games'[g].winner = games[g].currentPlayer
           /\ games'[g].winner # Draw
C6_WinBeforeDraw == [][C6_WinOnLastCell]_vars

\* C6's case: a game won by the disc that filled the top row.
C6_Witness ==
    \E g \in DOMAIN games :
        /\ TopRowFull(games[g].board)
        /\ games[g].winner \in PlayerColor
        /\ FourOf(games[g].board, games[g].winner)

\* The lowest empty cell of column c of game g
LandsAt(g, c) ==
    {cell \in Cells :
        /\ cell[2] = c
        /\ At(games[g].board, cell) = Null
        /\ \A r \in RowIdx : r > cell[1] => games[g].board[r][c] # Null}

\* C7: an accepted move puts one disc of the mover's colour on the lowest
\* empty cell of its column and changes no other cell; no empty cell lies
\* under a disc; a disc stays where it is and what it is.
C7_Gravity ==
    \A g \in DOMAIN games : \A c \in ColIdx, r \in 0..(ROWS - 2) :
        games[g].board[r][c] # Null => games[g].board[r + 1][c] # Null
C7_OneDisc ==
    /\ \A g \in Kept :
          \/ games'[g].board = games[g].board
          \/ \A cell \in Cells :
                At(games[g].board, cell) # Null =>
                    At(games'[g].board, cell) = At(games[g].board, cell)
    /\ \A g \in Kept : \A cell \in Changed(g) :
          /\ Changed(g) = {cell}
          /\ At(games'[g].board, cell) = games[g].currentPlayer
          /\ cell \in LandsAt(g, cell[2])
    /\ \A g \in Kept :
          games'[g].moveCount # games[g].moveCount => Cardinality(Changed(g)) = 1
C7_Placed ==
    \A g \in DOMAIN games : \A c \in AnyCols, color \in PlayerColor :
        LET res == Game_makeMove(games[g], c, color)
            differ == {cell \in Cells :
                         At(res.game.board, cell) # At(games[g].board, cell)}
        IN  IF res.ok
            THEN /\ differ = LandsAt(g, c)
                 /\ Cardinality(differ) = 1
                 /\ \A cell \in differ : At(res.game.board, cell) = color
            ELSE differ = {}
C7_DiscsFallAndStay == []C7_Gravity /\ []C7_Placed /\ [][C7_OneDisc]_vars

\* C7's case: a disc lying on another, and a column still empty.
C7_Witness ==
    \E g \in DOMAIN games :
        /\ \E c \in ColIdx : games[g].board[ROWS - 2][c] # Null
        /\ \E c \in ColIdx : games[g].board[ROWS - 1][c] = Null

\* The bot has the turn in the game of bot-move timer t.
BotToMove(t) ==
    /\ t.gameId \in DOMAIN games
    /\ games[t.gameId].winner = Null
    /\ getPlayerByColor(games[t.gameId], games[t.gameId].currentPlayer).isBot

\* A step of the manager that is not a move
NotAMove ==
    \/ \E u \in Users : (Pairs(u) => IdsLeft) /\ addPlayer(u, JoinConn(u))
    \/ \E u \in Users : handleDisconnect(u)
    \/ \E u \in Users, g \in GameIds : rejoinGame(u, g, RejoinConn(u))
    \/ \E u \in Users : removePlayer(u)
    \/ \E t \in AllTimers : (IdsLeft /\ matchmakingTimeout(t)) \/ reconnectTimeout(t)

\* C8: moveCount goes up by one with each accepted move, a human's or the
\* bot's, stays as it is in every other step, and never goes down.
C8_CountsStep ==
    /\ \A g \in Kept :
          /\ games'[g].moveCount >= games[g].moveCount
          /\ games'[g].moveCount = games[g].moveCount + Cardinality(Changed(g))
    /\ \/ \A g \in Kept : games'[g].moveCount = games[g].moveCount
       \/ \A u \in Users, g \in GameIds, c \in AnyCols :
             \/ ~Seated(g, u)
             \/ /\ g \in Kept
                /\ games'[g].moveCount =
                      games[g].moveCount + (IF TurnedDown(g, u, c) THEN 0 ELSE 1)
             \/ ~makeMove(u, g, c)
    /\ \/ \A g \in Kept : games'[g].moveCount = games[g].moveCount
       \/ \E u \in Users, g \in GameIds, c \in AnyCols :
             Seated(g, u) /\ ~TurnedDown(g, u, c) /\ makeMove(u, g, c)
       \/ \E t \in AllTimers : BotToMove(t) /\ makeBotMove(t)
    /\ \/ \A g \in Kept : games'[g].moveCount = games[g].moveCount
       \/ ~NotAMove
C8_Counted ==
    \A g \in DOMAIN games : \A c \in AnyCols, color \in PlayerColor :
        LET res == Game_makeMove(games[g], c, color)
        IN  res.game.moveCount = games[g].moveCount + (IF res.ok THEN 1 ELSE 0)
C8_CountsMoves == []C8_Counted /\ [][C8_CountsStep]_vars

\* C8's case: a game against the bot after the human's move and the bot's.
C8_Witness ==
    \E g \in DOMAIN games :
        games[g].players[2].isBot /\ games[g].moveCount = 2

\* The columns of C9's line, who asks for each, and the board after k of them
Line == <<0, 0, 1, 1, 2, 2, 3>>
LineMover(k) == IF k % 2 = 1 THEN "a" ELSE "b"
LineBoard(k) ==
    [r \in RowIdx |-> [c \in ColIdx |->
        IF r = ROWS - 1 /\ c <= 3 /\ k >= 2 * c + 1 THEN Red
        ELSE IF r = ROWS - 2 /\ c <= 2 /\ k >= 2 * c + 2 THEN Yellow
        ELSE Null]]

\* C9: from the empty board the moves 0, 0, 1, 1, 2, 2, 3, asked for in turn,
\* are each accepted; the game has no winner after the first six, and after
\* the seventh the first mover has won and moveCount is 7.
LineBoards == [k \in 0..Len(Line) |-> LineBoard(k)]
C9_OnLine ==
    \A g \in DOMAIN games : \A k \in 0..Len(Line) :
        games[g].board = LineBoards[k] =>
            /\ games[g].moveCount = k
            /\ games[g].winner = IF k = Len(Line) THEN games[g].players[1].color ELSE Null
C9_LineStep ==
    \A g \in DOMAIN games : \A k \in 1..Len(Line) :
        games[g].board = LineBoards[k - 1] /\ makeMove(LineMover(k), g, Line[k]) =>
            /\ g \in DOMAIN games'
            /\ games'[g].board = LineBoards[k]
C9_SevenMoveWin == []C9_OnLine /\ [][C9_LineStep]_vars

\* C9's case: the seven moves made.
C9_Witness ==
    \E g \in DOMAIN games :
        /\ games[g].board = LineBoards[Len(Line)]
        /\ games[g].winner = Red
        /\ games[g].players[1].username = "a"
        /\ games[g].moveCount = 7

\* C10: when u joins and another player waits, that step removes the waiting
\* entry, leaves no matchmaking timer of either, and makes one new game of
\* two humans, the waiting player first and on turn, u second; u is given
\* no waiting entry.
C10_PairStep ==
    \A u \in Users :
        /\ u \notin DOMAIN playerToGame
        /\ ~IsWaiting(waitingPlayers, u)
        /\ Len(waitingPlayers) > 0
        /\ IdsLeft
        /\ addPlayer(u, JoinConn(u))
        => LET first == waitingPlayers[1].username
           IN  /\ first # u
               /\ ~IsWaiting(waitingPlayers', first)
               /\ ~IsWaiting(waitingPlayers', u)
               /\ \A t \in BagToSet(timers') :
                     t.kind = "matchmaking" => t.username \notin {first, u}
               /\ \E g \in DOMAIN games' \ DOMAIN games :
                     /\ DOMAIN games' = DOMAIN games \cup {g}
                     /\ games'[g].players[1].username = first
                     /\ games'[g].players[1].color = games'[g].currentPlayer
                     /\ games'[g].players[2].username = u
                     /\ games'[g].players[2].color # games'[g].currentPlayer
                     /\ ~games'[g].players[1].isBot
                     /\ ~games'[g].players[2].isBot
                     /\ games'[g].winner = Null
                     /\ games'[g].moveCount = 0
                     /\ playerToGame'[first] = g
                     /\ playerToGame'[u] = g
C11_BotGameMade(u) ==
    /\ ~IsWaiting(waitingPlayers', u)
    /\ \E g \in DOMAIN games' \ DOMAIN games :
          /\ DOMAIN games' = DOMAIN games \cup {g}
          /\ games'[g].players[1].username = u
          /\ ~games'[g].players[1].isBot
          /\ games'[g].players[1].color = games'[g].currentPlayer
          /\ games'[g].players[2].isBot
          /\ games'[g].players[2].color # games'[g].currentPlayer
          /\ games'[g].board = [r \in RowIdx |-> [c \in ColIdx |-> Null]]
          /\ games'[g].moveCount = 0
          /\ games'[g].winner = Null
          /\ u \in DOMAIN playerToGame' /\ playerToGame'[u] = g
          /\ ~BagIn(BotMoveTimer(g), timers')
C11_FallbackStep ==
    \A t \in AllTimers :
        \/ C11_BotGameMade(t.username)
        \/ ~(IdsLeft /\ IsWaiting(waitingPlayers, t.username) /\ matchmakingTimeout(t))
C11_HumanOpens ==
    \A g \in Kept :
        games[g].players[2].isBot /\ games[g].moveCount = 0 =>
            \A cell \in Changed(g) :
                At(games'[g].board, cell) = games[g].players[1].color
C11_BotWaits ==
    \A g \in DOMAIN games :
        games[g].players[2].isBot /\ games[g].moveCount = 0 =>
            /\ games[g].currentPlayer = games[g].players[1].color
            /\ ~BagIn(BotMoveTimer(g), timers)
C11_FallbackToBot ==
    []C11_BotWaits /\ [][C11_FallbackStep /\ C11_HumanOpens]_vars

\* C11's case: a game against the bot just made, the human told, nobody waiting.
C11_Witness ==
    \E g \in DOMAIN games :
        /\ games[g].players[2].isBot
        /\ games[g].moveCount = 0
        /\ waitingPlayers = <<>>
        /\ Len(sent) = 1
        /\ sent[1].data.type = "gameStart"

\* C12: addPlayer for a name that is in the index of a game, also of a game
\* that has ended and is not cleaned up yet, or that is waiting, answers with
\* an error and leaves the waiting list, the games, the index, the disconnect
\* entries, the timers and the pending work as they were.
C12_Known(u) == u \in DOMAIN playerToGame \/ IsWaiting(waitingPlayers, u)
C12_TurnedAway(u) ==
    /\ UNCHANGED <<waitingPlayers, games, playerToGame, disconnectedPlayers,
                   timers, tasks, nextId>>
    /\ Len(sent') = 1
    /\ sent'[1].to = JoinConn(u)
    /\ sent'[1].data.type = "error"
    /\ calls' = <<>>
C12_RejectedJoinIsInert ==
    [][\A u \in Users :
          \/ C12_TurnedAway(u)
          \/ ~(C12_Known(u) /\ addPlayer(u, JoinConn(u)))]_vars

\* C12's case: a player of a game that has ended, not cleaned up yet, has just
\* been turned away, while another player waits.
C12_Witness ==
    \E u \in DOMAIN playerToGame :
        /\ playerToGame[u] \in DOMAIN games
        /\ games[playerToGame[u]].winner # Null
        /\ sent = <<[to |-> JoinConn(u),
                     data |-> ErrorMsg("You are already in a game")]>>
        /\ Len(waitingPlayers) = 1

\* C13, as claimed: a name has at most one of a waiting entry, an entry of
\* the index of games and a disconnect entry.
C13_Holds(u) ==
    {k \in {"waiting", "playing", "disconnected"} :
        \/ k = "waiting" /\ IsWaiting(waitingPlayers, u)
        \/ k = "playing" /\ u \in DOMAIN playerToGame
        \/ k = "disconnected" /\ u \in DOMAIN disconnectedPlayers}
C13_AtMostOne == \A u \in Users : Cardinality(C13_Holds(u)) <= 1

\* C13, amended: a name that waits has neither an entry of the index nor a
\* disconnect entry, and a name with a disconnect entry has the index entry of
\* the same game, which is in the table with the name among its players.
C13_WaitingOrPlaying ==
    \A u \in Users :
        /\ IsWaiting(waitingPlayers, u) => C13_Holds(u) = {"waiting"}
        /\ u \in DOMAIN disconnectedPlayers =>
              /\ u \in DOMAIN playerToGame
              /\ playerToGame[u] = disconnectedPlayers[u].gameId
              /\ playerToGame[u] \in DOMAIN games
              /\ FindPlayer(games[playerToGame[u]], u) # 0

\* C13's case: one player away from a game, with both entries, another waiting.
C13_Witness ==
    \E u, v \in Users :
        /\ C13_Holds(u) = {"playing", "disconnected"}
        /\ C13_Holds(v) = {"waiting"}

\* The rejoinSuccess messages of the last step
Rejoined == {i \in DOMAIN sent : sent[i].data.type = "rejoinSuccess"}

\* C14, as claimed: rejoinSuccess carries the board and the turn of the moment
\* handleDisconnect was called, whatever happened since; here every
\* handleDisconnect is called on the empty board, Red to move.
C14_AsWhenLost ==
    \A i \in Rejoined :
        /\ sent[i].data.board = createEmptyBoard
        /\ sent[i].data.currentPlayer = Red

\* C14, amended: rejoinSuccess carries the board and the turn of the game as
\* they are when rejoinGame is called, which are those of the moment
\* handleDisconnect was called when no move was accepted in between.
C14_AsItIsNow ==
    \A i \in Rejoined :
        LET data == sent[i].data
        IN  /\ data.gameId \in DOMAIN games
            /\ data.board = games[data.gameId].board
            /\ data.currentPlayer = games[data.gameId].currentPlayer
            /\ games[data.gameId].moveCount = 0 =>
                  data.board = createEmptyBoard /\ data.currentPlayer = Red

\* C14's case: a player is back in a game in which a disc fell meanwhile.
C14_Witness ==
    \E i \in Rejoined :
        /\ games[sent[i].data.gameId].moveCount > 0
        /\ sent[i].data.yourColor = Yellow
        /\ sent[i].data.currentPlayer = Red

\* The ids randomUUID has handed out
Issued == {randomUUID(n) : n \in 0..(nextId - 1)}

\* Nothing of the manager points at game g.
Forgotten(g) ==
    /\ g \notin DOMAIN games'
    /\ \A u \in DOMAIN playerToGame' : playerToGame'[u] # g
    /\ \A u \in DOMAIN disconnectedPlayers' : disconnectedPlayers'[u].gameId # g

\* C15: when the reconnect timer of a player who has not rejoined fires, the
\* game leaves the table with the index entries of both players and its
\* disconnect entries; a game that has left never comes back, no disconnect
\* entry names it, and every rejoinGame for it is answered with an error.
C15_Away(t) ==
    /\ t.kind = "reconnect"
    /\ t.gameId \in DOMAIN games
    /\ t.username \in DOMAIN disconnectedPlayers
    /\ disconnectedPlayers[t.username].gameId = t.gameId
C15_ExpiryForfeits ==
    \A t \in AllTimers :
        Forgotten(t.gameId) \/ ~(C15_Away(t) /\ reconnectTimeout(t))
C15_GoneForGood ==
    \A g \in Issued \ DOMAIN games :
        /\ g \notin DOMAIN games'
        /\ \A u \in Users :
              \/ /\ sent' = <<[to |-> RejoinConn(u),
                               data |-> ErrorMsg("Cannot rejoin this game")]>>
                 /\ UNCHANGED <<games, playerToGame, disconnectedPlayers, timers>>
              \/ ~rejoinGame(u, g, RejoinConn(u))
C15_NoEntryOfGone ==
    \A u \in DOMAIN disconnectedPlayers :
        disconnectedPlayers[u].gameId \in DOMAIN games
C15_ForfeitIsFinal ==
    []C15_NoEntryOfGone /\ [][C15_ExpiryForfeits /\ C15_GoneForGood]_vars

\* C15's case: the game is gone, and a player who asked to rejoin it has just
\* been turned away.
C15_Witness ==
    /\ Issued # {}
    /\ games = EmptyMap
    /\ playerToGame = EmptyMap
    /\ disconnectedPlayers = EmptyMap
    /\ \E u \in Users :
          sent = <<[to |-> RejoinConn(u),
                    data |-> ErrorMsg("Cannot rejoin this game")]>>

\* C16: once a player has rejoined, and until handleDisconnect is called for
\* the player again, no reconnect timer of the player takes the game away,
\* however many times handleDisconnect was called before the rejoin. A player
\* of a game in the table who has no disconnect entry has rejoined since the
\* last handleDisconnect, or has never been away.
C16_Back(t) ==
    /\ t.kind = "reconnect"
    /\ t.gameId \in DOMAIN games
    /\ t.username \notin DOMAIN disconnectedPlayers
C16_NoForfeitAfterRejoin ==
    [][\A t \in AllTimers :
          t.gameId \in DOMAIN games' \/ ~(C16_Back(t) /\ reconnectTimeout(t))]_vars

\* C17: a game against the bot starts only in the step in which the
\* matchmaking timer of its human fires while the human's waiting entry is
\* there; a matchmaking timer is armed only for a waiting entry, once, so none
\* is left to fire for a player who was paired or removed.
C17_TimerOfWaiting ==
    \A t \in AllTimers :
        t.kind = "matchmaking" =>
            /\ CopiesIn(t, timers) = 1
            /\ \E i \in DOMAIN waitingPlayers :
                  /\ waitingPlayers[i].username = t.username
                  /\ waitingPlayers[i].player = t.player
C17_BotGameStep ==
    \A g \in DOMAIN games' \ DOMAIN games :
        games'[g].players[2].isBot =>
            LET player == games'[g].players[1]
            IN  /\ IsWaiting(waitingPlayers, player.username)
                /\ BagIn(MatchmakingTimer(player), timers)
                /\ ~BagIn(MatchmakingTimer(player), timers')
                /\ ~IsWaiting(waitingPlayers', player.username)
C17_GoneStep ==
    \A u \in Users :
        IsWaiting(waitingPlayers, u) /\ ~IsWaiting(waitingPlayers', u) =>
            \A t \in BagToSet(timers') : ~(t.kind = "matchmaking" /\ t.username = u)
C17_BotOnlyFromWaiting ==
    []C17_TimerOfWaiting /\ [][C17_BotGameStep /\ C17_GoneStep]_vars

\* C17's case: the timer of one player has started a game against the bot,
\* and the only matchmaking timer armed is that of another, who waits.
C17_Witness ==
    \E u, v \in Users :
        /\ u # v
        /\ u \in DOMAIN playerToGame
        /\ games[playerToGame[u]].players[2].isBot
        /\ IsWaiting(waitingPlayers, v)
        /\ {t \in AllTimers : t.kind = "matchmaking"}
              = {MatchmakingTimer(Human(v, JoinConn(v), Red))}

\* C18: rejoinGame for a name with no disconnect entry, or with one of another
\* game, answers with an error and changes nothing: not the disconnect
\* entries, the timers, the games with the connections of their players, the
\* index or the waiting list.
C18_NoEntryFor(u, g) ==
    u \notin DOMAIN disconnectedPlayers \/ disconnectedPlayers[u].gameId # g
C18_Refused(u) ==
    /\ UNCHANGED <<games, waitingPlayers, playerToGame, disconnectedPlayers,
                   timers, tasks, nextId>>
    /\ sent' = <<[to |-> RejoinConn(u), data |-> ErrorMsg("Cannot rejoin this game")]>>
    /\ calls' = <<>>
C18_RefusedRejoinIsInert ==
    [][\A u \in Users, g \in GameIds :
          \/ C18_Refused(u)
          \/ ~(C18_NoEntryFor(u, g) /\ rejoinGame(u, g, RejoinConn(u)))]_vars

\* C18's case: a player away from one game has asked to rejoin another and has
\* just been turned away, the disconnect entry and its timer still there.
C18_Witness ==
    \E u \in DOMAIN disconnectedPlayers :
        /\ sent = <<[to |-> RejoinConn(u), data |-> ErrorMsg("Cannot rejoin this game")]>>
        /\ BagIn(ReconnectTimer(disconnectedPlayers[u].gameId, u), timers)

\* C19: the forfeit of a game in the table, by the reconnect timer of a player
\* or by removePlayer, sends opponentLeft with the other player's own colour
\* to the other player when human and nothing when the bot, takes the game,
\* the index entries of both players and the disconnect entries away in the
\* same step, and calls neither db.saveGame nor the producer.
C19_Told(g, u) ==
    LET game == games[g]
        others == {i \in 1..2 : game.players[i].username # u /\ ~game.players[i].isBot}
    IN  /\ \A i \in others :
              sent' = <<[to |-> game.players[i].ws,
                        data |-> [type |-> "opponentLeft",
                                  winner |-> game.players[i].color]]>>
        /\ others = {} => sent' = <<>>
C19_Forfeited(g, u) ==
    /\ C19_Told(g, u)
    /\ Forgotten(g)
    /\ \A i \in 1..2 : games[g].players[i].username \notin DOMAIN playerToGame'
    /\ calls' = <<>>
    /\ {[kind |-> t.kind, gameId |-> t.gameId] : t \in tasks'}
          = {[kind |-> t.kind, gameId |-> t.gameId] : t \in tasks}
C19_ByTimer ==
    \A t \in AllTimers :
        t.kind = "reconnect" /\ t.gameId \in DOMAIN games =>
            C19_Forfeited(t.gameId, t.username) \/ ~reconnectTimeout(t)
C19_ByLeaving ==
    \A u \in DOMAIN playerToGame :
        playerToGame[u] \in DOMAIN games =>
            C19_Forfeited(playerToGame[u], u) \/ ~removePlayer(u)
C19_ForfeitInOneStep == [][C19_ByTimer /\ C19_ByLeaving]_vars

\* C19's case: a game of two humans, not won yet, has just been forfeited and
\* Yellow told of it.
C19_Witness ==
    /\ games = EmptyMap
    /\ playerToGame = EmptyMap
    /\ disconnectedPlayers = EmptyMap
    /\ tasks = {}
    /\ Len(sent) = 1
    /\ sent[1].data = [type |-> "opponentLeft", winner |-> Yellow]

\* The calls of fn for game g made in a step
CallsOf(fn, g) == {i \in DOMAIN calls' : calls'[i].fn = fn /\ calls'[i].gameId = g}

\* The name of the winner of a game that has ended, none for a draw
WinnerName(game, none) ==
    IF game.winner = Draw THEN none
    ELSE CHOOSE name \in {game.players[i].username : i \in 1..2} :
            \E i \in 1..2 : /\ game.players[i].username = name
                             /\ game.players[i].color = game.winner

\* The step is an accepted move that ends game g.
EndsNow(g) ==
    /\ g \in Kept
    /\ games[g].winner = Null
    /\ games'[g].winner # Null
    /\ games'[g].moveCount = games[g].moveCount + 1

\* The awaits of #broadcastGameState for game g that a step resumes
Resumed(kind, g) == {t \in tasks \ tasks' : t.kind = kind /\ t.gameId = g}

\* C20: for each game, kafkaProducer.sendGameEnd is called in the step of the
\* accepted move that ends it and in no other, and db.saveGame once after
\* it, at once when the producer is not connected; both with the winner's
\* name, "draw" and null standing for a draw, and the moveCount of the game
\* that has ended. A game that has ended stays so, and nothing is called for
\* a game that is forfeited or cleaned up.
C20_Published(g) ==
    /\ Cardinality(CallsOf("sendGameEnd", g)) = IF EndsNow(g) THEN 1 ELSE 0
    /\ \A i \in CallsOf("sendGameEnd", g) :
          /\ calls'[i].winner = WinnerName(games'[g], Draw)
          /\ calls'[i].moveCount = games'[g].moveCount
C20_Saved(g) ==
    /\ Cardinality(CallsOf("saveGame", g)) =
          IF ~isConnected /\ EndsNow(g) THEN 1
          ELSE Cardinality(Resumed("sendGameEnd", g))
    /\ ~isConnected => Resumed("sendGameEnd", g) = {}
    /\ \A i \in CallsOf("saveGame", g) :
          IF EndsNow(g)
          THEN /\ calls'[i].winner = WinnerName(games'[g], Null)
               /\ calls'[i].moveCount = games'[g].moveCount
          ELSE \A t \in Resumed("sendGameEnd", g) :
                  /\ calls'[i].winner = WinnerName(t.game, Null)
                  /\ calls'[i].moveCount = t.game.moveCount
C20_EndStep ==
    /\ Len(calls') <= 2
    /\ \A g \in GameIds : C20_Published(g) /\ C20_Saved(g)
    /\ \A g \in Kept : games[g].winner # Null => games'[g].winner = games[g].winner
    /\ Issued \ DOMAIN games \subseteq Issued' \ DOMAIN games'
C20_OneAwait ==
    \A g \in GameIds :
        LET parked == {t \in tasks : t.gameId = g /\ t.kind \in {"sendGameEnd", "saveGame"}}
        IN  /\ Cardinality(parked) <= 1
            /\ \A t \in parked : t.game.winner # Null
            /\ \A t \in parked : t.kind = "sendGameEnd" => isConnected
C20_SavedOncePerEnd == []C20_OneAwait /\ [][C20_EndStep]_vars

\* C20's case: a draw has just been published as "draw" and saved with no
\* winner, 42 moves each.
C20_Witness ==
    /\ Len(calls) = 2
    /\ calls[1].fn = "sendGameEnd" /\ calls[1].winner = Draw
    /\ calls[2].fn = "saveGame" /\ calls[2].winner = Null
    /\ calls[1].moveCount = ROWS * COLS
    /\ calls[2].moveCount = ROWS * COLS

\* C21: every game that has ended leaves the table in the end, and the index
\* entries of its players with it, whether db.saveGame and the producer do
\* well, fail or take their time.
C21_Gone(g) ==
    /\ g \notin DOMAIN games
    /\ \A u \in DOMAIN playerToGame : playerToGame[u] # g
C21_EndedGamesLeave ==
    \A g \in GameIds :
        (g \in DOMAIN games /\ games[g].winner # Null) ~> C21_Gone(g)

\* C22: after removePlayer the name has no waiting entry, no disconnect entry,
\* no index entry and no seat in a game of the table, and no matchmaking or
\* reconnect timer of the name is armed; removePlayer for a name that has
\* none of these changes nothing and sends nothing.
C22_Clear(u) ==
    /\ ~IsWaiting(waitingPlayers', u)
    /\ u \notin DOMAIN disconnectedPlayers'
    /\ u \notin DOMAIN playerToGame'
    /\ \A g \in DOMAIN games' : FindPlayer(games'[g], u) = 0
    /\ \A t \in BagToSet(timers') :
          t.kind \in {"matchmaking", "reconnect"} => t.username # u
C22_Absent(u) ==
    /\ ~IsWaiting(waitingPlayers, u)
    /\ u \notin DOMAIN disconnectedPlayers
    /\ u \notin DOMAIN playerToGame
C22_Again(u) ==
    C22_Absent(u) =>
        /\ UNCHANGED <<games, waitingPlayers, playerToGame, disconnectedPlayers,
                       timers, tasks, nextId>>
        /\ sent' = <<>>
C22_LeaveClearsAll ==
    [][\A u \in Users : (C22_Clear(u) /\ C22_Again(u)) \/ ~removePlayer(u)]_vars

\* C23: #cleanupGame for an id that is not in the table, gone or never there,
\* changes nothing; so the cleanup timer of a game that a forfeit has removed
\* fires without changing anything but the timers, which lose it.
C23_NoGameNoChange ==
    \A g \in GameIds \ DOMAIN games : cleanupGame(Manager, g) = Manager
C23_StaleCleanup ==
    \A t \in AllTimers :
        t.kind = "cleanup" /\ t.gameId \notin DOMAIN games =>
            \/ /\ UNCHANGED <<games, waitingPlayers, playerToGame,
                               disconnectedPlayers, tasks, nextId>>
               /\ timers' = clearTimeout(timers, t)
               /\ sent' = <<>>
               /\ calls' = <<>>
            \/ ~cleanupTimeout(t)
C23_CleanupIsIdempotent == []C23_NoGameNoChange /\ [][C23_StaleCleanup]_vars

\* C23's case: the cleanup timer of a game that a forfeit has removed is armed
\* while another game, with a player away from it, is in the table.
C23_Witness ==
    \E g \in GameIds \ DOMAIN games :
        /\ BagIn(CleanupTimer(g), timers)
        /\ disconnectedPlayers # EmptyMap

\* The columns a disc can go to, the cell it lands on, and the columns where a
\* disc of color completes a run of four
Playable(board) == {c \in ColIdx : board[0][c] = Null}
Landing(board, c) ==
    <<CHOOSE r \in RowIdx :
          board[r][c] = Null /\ (r = ROWS - 1 \/ board[r + 1][c] # Null), c>>
Dropped(board, c, color) ==
    [board EXCEPT ![Landing(board, c)[1]][c] = color]
WinsAt(board, color) ==
    {c \in Playable(board) :
        FourThrough(Dropped(board, c, color), Landing(board, c), color)}
Lowest(columns) == CHOOSE c \in columns : \A d \in columns : c <= d

\* The games in which the bot is to move
BotGames ==
    {g \in DOMAIN games :
        /\ games[g].winner = Null
        /\ games[g].players[2].isBot
        /\ games[g].currentPlayer = games[g].players[2].color}

\* C24: with two or more columns open, getBestMove returns the lowest column
\* that wins at once for the bot if there is one, also when the opponent has
\* a winning column too, and else the lowest column that wins at once for the
\* opponent if there is one; the bot's disc goes there.
C24_Expected(board, color) ==
    IF WinsAt(board, color) # {} THEN Lowest(WinsAt(board, color))
    ELSE Lowest(WinsAt(board, opponentColor(color)))
C24_Forced(board, color) ==
    /\ Cardinality(Playable(board)) >= 2
    /\ WinsAt(board, color) \cup WinsAt(board, opponentColor(color)) # {}
C24_Chosen ==
    \A g \in BotGames :
        LET board == games[g].board
            color == games[g].currentPlayer
        IN  C24_Forced(board, color) =>
                getBestMove(board, color) = C24_Expected(board, color)
C24_Played ==
    \A g \in BotGames \cap Kept : \A cell \in Changed(g) :
        LET board == games[g].board
            color == games[g].currentPlayer
        IN  C24_Forced(board, color) =>
                /\ cell = Landing(board, C24_Expected(board, color))
                /\ At(games'[g].board, cell) = color
C24_WinThenBlock == []C24_Chosen /\ [][C24_Played]_vars

\* C24's case: the bot has won although the human had a winning column, which
\* is still open.
C24_Witness ==
    \E g \in DOMAIN games :
        /\ games[g].players[2].isBot
        /\ games[g].winner = games[g].players[2].color
        /\ WinsAt(games[g].board, games[g].players[1].color) # {}

\* The axes along which the disc of color at cell lies in three or more
\* contiguous discs of color
Stretch(cell, axis) ==
    {<<cell[1] + k * axis[1], cell[2] + k * axis[2]>> : k \in 0..2}
ThreeAxes(board, at, color) ==
    {axis \in Axes :
        \E k \in 0..2 :
            LET stretch == Stretch(<<at[1] - k * axis[1], at[2] - k * axis[2]>>, axis)
            IN  /\ stretch \subseteq Cells
                /\ \A c \in stretch : At(board, c) = color}

\* C29: with two or more columns open and none that wins at once for either
\* colour, getBestMove returns the open column of the highest score, the
\* lowest of them when several have it; the score of a column is
\* (3 - |column - 3|) * 10, plus 50 for each axis along which the bot's disc
\* would lie in three or more of its own, plus 30 for each axis along which the
\* opponent's disc would, had the opponent taken the cell. On the empty board
\* it returns column 3.
C29_Score(board, c, color) ==
    LET at == Landing(board, c)
        distance == IF c < 3 THEN 3 - c ELSE c - 3
    IN  (3 - distance) * 10
        + 50 * Cardinality(ThreeAxes(Dropped(board, c, color), at, color))
        + 30 * Cardinality(ThreeAxes(Dropped(board, c, opponentColor(color)), at,
                                     opponentColor(color)))
C29_Best(board, color) ==
    LET score == [c \in Playable(board) |-> C29_Score(board, c, color)]
    IN  {c \in Playable(board) : \A d \in Playable(board) : score[d] <= score[c]}
C29_Quiet(board, color) ==
    /\ Cardinality(Playable(board)) >= 2
    /\ WinsAt(board, color) = {}
    /\ WinsAt(board, opponentColor(color)) = {}
C29_Chosen ==
    /\ getBestMove(createEmptyBoard, Yellow) = 3
    /\ getBestMove(createEmptyBoard, Red) = 3
    /\ \A g \in BotGames :
          LET board == games[g].board
              color == games[g].currentPlayer
          IN  C29_Quiet(board, color) =>
                  getBestMove(board, color) = Lowest(C29_Best(board, color))
C29_Played ==
    \A g \in BotGames \cap Kept : \A cell \in Changed(g) :
        LET board == games[g].board
            color == games[g].currentPlayer
        IN  C29_Quiet(board, color) =>
                cell = Landing(board, Lowest(C29_Best(board, color)))
C29_HighestScoreLowestColumn == []C29_Chosen /\ [][C29_Played]_vars

\* C29's case: the bot is to move, no column wins at once, and two columns
\* off the centre share the highest score, threats counted in it.
C29_Witness ==
    \E g \in BotGames :
        /\ C29_Quiet(games[g].board, Yellow)
        /\ Cardinality(C29_Best(games[g].board, Yellow)) >= 2
        /\ 3 \notin C29_Best(games[g].board, Yellow)
        /\ \A c \in C29_Best(games[g].board, Yellow) :
              C29_Score(games[g].board, c, Yellow) >= 50

\* C27: every disconnect entry is of a game in progress: no state holds a
\* disconnect entry whose game is in the table with a winner or a draw set.
C27_EntriesOfGamesInProgress ==
    \A u \in DOMAIN disconnectedPlayers :
        LET g == disconnectedPlayers[u].gameId
        IN  g \in DOMAIN games => games[g].winner = Null

\* C28: handleDisconnect for a name that holds a seat leaves the game (board,
\* turn, outcome, move count, seats), the waiting queue, the table and the
\* index as they are; it records the disconnect entry of the name, arms the
\* reconnect timer and tells the opponent, if the opponent is human, and does
\* nothing else.
C28_Holder(u) ==
    /\ u \in DOMAIN playerToGame
    /\ playerToGame[u] \in DOMAIN games
    /\ Seated(playerToGame[u], u)
C28_Told(u) ==
    LET game == games[playerToGame[u]]
        o == FindOpponent(game, u)
    IN  IF o # 0 /\ ~game.players[o].isBot
        THEN /\ Len(sent') = 1
             /\ sent'[1].to = game.players[o].ws
             /\ sent'[1].data.type = "error"
        ELSE sent' = <<>>
C28_Step(u) ==
    C28_Holder(u) =>
        /\ UNCHANGED <<games, waitingPlayers, playerToGame, tasks, nextId>>
        /\ calls' = <<>>
        /\ disconnectedPlayers' =
               MapPut(disconnectedPlayers, u,
                      [gameId |-> playerToGame[u],
                       color |-> ColorOf(playerToGame[u], u)])
        /\ timers' = setTimeout(timers, ReconnectTimer(playerToGame[u], u))
        /\ C28_Told(u)
C28_DisconnectOnlyRecords ==
    [][\A u \in Users : C28_Step(u) \/ ~handleDisconnect(u)]_vars

\* C28's case: a player of a game of two is away, the opponent was told so
\* in this step, and the game has discs on its board.
C28_Witness ==
    \E u \in DOMAIN disconnectedPlayers :
        LET g == disconnectedPlayers[u].gameId
        IN  /\ g \in DOMAIN games
            /\ games[g].moveCount > 0
            /\ Len(sent) = 1
            /\ sent[1].data = ErrorMsg(<<u, "disconnected">>)

\* C30: a request or a timer that refers to what is no longer there does
\* nothing: makeMove for an id that is not in the table or by a name with no
\* seat in the game, handleDisconnect for a name with no game, and the
\* bot-move, reconnect and cleanup timers of a game that has left the table
\* change nothing (the timer that fired is no longer armed) and send nothing.
C30_Idle ==
    /\ UNCHANGED <<games, waitingPlayers, playerToGame, disconnectedPlayers,
                   tasks, nextId>>
    /\ sent' = <<>>
    /\ calls' = <<>>
C30_StaleMove ==
    \A u \in Users, g \in GameIds :
        ~Seated(g, u) =>
            \A c \in AnyCols :
                (C30_Idle /\ UNCHANGED timers) \/ ~makeMove(u, g, c)
C30_StaleClose ==
    \A u \in Users :
        (u \notin DOMAIN playerToGame \/ playerToGame[u] \notin DOMAIN games) =>
            (C30_Idle /\ UNCHANGED timers) \/ ~handleDisconnect(u)
C30_StaleTimer ==
    \A t \in AllTimers :
        t.kind \in {"botMove", "reconnect", "cleanup"} /\ t.gameId \notin DOMAIN games =>
            \/ C30_Idle /\ timers' = clearTimeout(timers, t)
            \/ ~(makeBotMove(t) \/ reconnectTimeout(t) \/ cleanupTimeout(t))
C30_StaleIsNoOp == [][C30_StaleMove /\ C30_StaleClose /\ C30_StaleTimer]_vars

\* C30's case: a game has left the table with a bot-move or a reconnect
\* timer of it still armed, while a game in the table has no seat for one of
\* the users.
C30_Witness ==
    /\ \E t \in AllTimers :
          t.kind \in {"botMove", "reconnect"} /\ t.gameId \notin DOMAIN games
    /\ \E g \in DOMAIN games, u \in Users : ~Seated(g, u)

\* C26: in a game against the bot that stays in the table, each accepted move
\* of the human that leaves the game in progress is answered: the bot, in the
\* end, places one disc, and one only, after which the turn is the human's
\* or the game is over; the turn does not stay with the bot for ever.
C26_BotsTurn(g) ==
    /\ g \in DOMAIN games
    /\ games[g].winner = Null
    /\ getPlayerByColor(games[g], games[g].currentPlayer).isBot
C26_Answer ==
    \A g \in GameIds : C26_BotsTurn(g) ~> ~C26_BotsTurn(g)
C26_Armed ==
    \A g \in GameIds : C26_BotsTurn(g) => BagIn(BotMoveTimer(g), timers)
C26_OneDisc ==
    \A g \in Kept :
        C26_BotsTurn(g) =>
            \/ SameGame(g)
            \/ /\ \E cell \in Cells :
                    /\ Changed(g) = {cell}
                    /\ At(games[g].board, cell) = Null
                    /\ At(games'[g].board, cell) = games[g].currentPlayer
               /\ games'[g].moveCount = games[g].moveCount + 1
               /\ ~C26_BotsTurn(g)'
               /\ \E t \in AllTimers : makeBotMove(t)
C26_BotAnswersOnce == C26_Answer /\ []C26_Armed /\ [][C26_OneDisc]_vars

\* C26's case: the bot has answered a move of the human and the game goes
\* on, the human to move.
C26_Witness ==
    \E g \in DOMAIN games :
        /\ games[g].players[2].isBot
        /\ games[g].winner = Null
        /\ games[g].currentPlayer = Red
        /\ games[g].moveCount > ROWS * COLS - LateCells
        /\ Len(sent) = 1
        /\ sent[1].data = MoveMsg(games[g])

\* C25: a trial never shows on the board of the game: after getBestMove of
\* either colour, and after Game.wouldWin and Game.simulateMove for any
\* column, on the board or off it, and either colour, every cell of the
\* board holds what it held before the call.
C25_SameCells(heap, board) == Deref(heap, LiveBoard) = board
C25_BoardUntouched ==
    \A g \in DOMAIN games :
        LET board == games[g].board
            heap == HeapOf(board)
        IN  \A color \in PlayerColor :
                /\ C25_SameCells(getBestMoveIn(heap, LiveBoard, color).heap, board)
                /\ \A column \in AnyCols :
                      /\ C25_SameCells(wouldWinIn(heap, LiveBoard, column, color).heap,
                                       board)
                      /\ C25_SameCells(simulateMoveIn(heap, LiveBoard, column, color).heap,
                                       board)

\* C25's case: the bot is to move on a board with every column open and no
\* winning column for either colour, so that getBestMove tries each column
\* three times on a copy, and Game.simulateMove returns a board.
C25_Witness ==
    \E g \in BotGames :
        LET board == games[g].board
            heap == HeapOf(board)
        IN  /\ games[g].moveCount > 0
            /\ Len(getBestMoveIn(heap, LiveBoard, Yellow).heap) = ROWS * (1 + 3 * COLS)
            /\ \E column \in ColIdx :
                  simulateMoveIn(heap, LiveBoard, column, Red).value # NoBoard

\* C31: each game has its own board: a request to move, accepted or turned
\* down, and a move of the bot change the board, the turn, the outcome and
\* the move count of no game of the table but the one they name.
C31_MoveOn(g) ==
    \/ \E u \in Users, c \in MoveCols : makeMove(u, g, c)
    \/ makeBotMove(BotMoveTimer(g))
C31_OthersKept(g) == \A h \in Kept \ {g} : SameGame(h)
C31_Step ==
    \A g \in GameIds : C31_OthersKept(g) \/ ~C31_MoveOn(g)
C31_OwnBoard == [][C31_Step]_vars

\* C31's case: two games are in the table, each with discs on its board,
\* and their boards differ.
C31_Witness ==
    \E g, h \in DOMAIN games :
        /\ g # h
        /\ games[g].moveCount > 0
        /\ games[h].moveCount > 0
        /\ games[g].board # games[h].board

\* C32: no name waits for ever: with the timers firing, a waiting player is
\* in the end paired with another player, or given a game against the bot
\* by the matchmaking timer, or taken out by removePlayer.
C32_Waits(u) == IsWaiting(waitingPlayers, u)
C32_Served == \A u \in Users : C32_Waits(u) ~> ~C32_Waits(u)
C32_Left(u) ==
    (C32_Waits(u) /\ ~C32_Waits(u)') =>
        \/ /\ u \in DOMAIN playerToGame'
           /\ playerToGame'[u] \in DOMAIN games' \ DOMAIN games
           /\ FindPlayer(games'[playerToGame'[u]], u) # 0
           /\ \/ \E v \in Users \ {u} : addPlayer(v, JoinConn(v))
              \/ /\ games'[playerToGame'[u]].players[2].isBot
                 /\ \E t \in AllTimers : matchmakingTimeout(t)
        \/ removePlayer(u)
C32_TimerOfEntry ==
    \A u \in Users :
        C32_Waits(u) =>
            /\ IdsLeft
            /\ \E t \in AllTimers : t.kind = "matchmaking" /\ t.username = u
C32_NoOneWaitsForEver ==
    C32_Served /\ []C32_TimerOfEntry /\ [][\A u \in Users : C32_Left(u)]_vars

\* C32's case: a player who waited has been given a game against the bot
\* while the other player waits.
C32_Witness ==
    \E u, v \in Users :
        /\ C32_Waits(v)
        /\ u \in DOMAIN playerToGame
        /\ playerToGame[u] \in DOMAIN games
        /\ games[playerToGame[u]].players[2].isBot

\* C33: every index entry names a game that is in the table and in which the
\* name holds a seat; every disconnect entry is of a name whose index entry
\* names the same game and whose seat in it has the colour the entry records.
C33_IndexedSeat(u) ==
    /\ playerToGame[u] \in DOMAIN games
    /\ FindPlayer(games[playerToGame[u]], u) # 0
C33_EntryOfSeat(u) ==
    /\ u \in DOMAIN playerToGame
    /\ playerToGame[u] = disconnectedPlayers[u].gameId
    /\ C33_IndexedSeat(u)
    /\ ColorOf(playerToGame[u], u) = disconnectedPlayers[u].color
C33_RegistryConsistent ==
    /\ \A u \in DOMAIN playerToGame : C33_IndexedSeat(u)
    /\ \A u \in DOMAIN disconnectedPlayers : C33_EntryOfSeat(u)

\* C33's case: a game that ended has left the table while a second game,
\* with a player away from it, is in the table.
C33_Witness ==
    /\ nextId = Len(Uuids)
    /\ GameIds \ DOMAIN games # {}
    /\ \E u \in DOMAIN disconnectedPlayers :
          disconnectedPlayers[u].gameId \in DOMAIN games

\* C34: at most one name waits: the waiting queue never holds more than one
\* entry, since a player who joins while another waits is paired with it.
C34_OneWaiting == Len(waitingPlayers) <= 1

\* C34's case: a player joined while the other waited, and the two were
\* paired: their game is in the table, no disc played, and nobody waits.
C34_Witness ==
    /\ waitingPlayers = <<>>
    /\ \E g \in DOMAIN games :
          /\ ~games[g].players[2].isBot
          /\ games[g].moveCount = 0
          /\ Len(sent) = 2

\* C35: in every game moveCount is the number of cells that hold a disc, 42
\* at most; red, who moves first, has as many discs as yellow or one more;
\* and while the game is in progress the turn is red's exactly when
\* moveCount is even.
C35_Discs(board, color) == Cardinality({cell \in Cells : At(board, cell) = color})
C35_Counted(game) ==
    LET reds == C35_Discs(game.board, Red)
        yellows == C35_Discs(game.board, Yellow)
    IN  /\ game.moveCount = reds + yellows
        /\ game.moveCount <= ROWS * COLS
        /\ reds - yellows \in {0, 1}
        /\ game.winner = Null =>
              (game.currentPlayer = Red <=> game.moveCount % 2 = 0)
C35_CountAndTurn == \A g \in DOMAIN games : C35_Counted(games[g])

\* C35's case: a game in progress with one cell left, yellow to move.
C35_Witness ==
    \E g \in DOMAIN games :
        /\ games[g].winner = Null
        /\ games[g].moveCount = ROWS * COLS - 1
        /\ games[g].currentPlayer = Yellow

\* C36: when the bot-move timer fires for a game of the table that is in
\* progress with the bot to move, getBestMove returns an open column and
\* Game.makeMove accepts the move; getBestMove never returns -1 there.
C36_Playable(game) ==
    LET color == game.currentPlayer
        column == getBestMove(game.board, color)
    IN  /\ column # -1
        /\ column \in ColIdx
        /\ game.board[0][column] = Null
        /\ Game_makeMove(game, column, color).ok
C36_BotCanMove == \A g \in BotGames : C36_Playable(games[g])
C36_Fired ==
    \A t \in AllTimers :
        BotToMove(t) =>
            \/ /\ t.gameId \in DOMAIN games'
               /\ games'[t.gameId].moveCount = games[t.gameId].moveCount + 1
               /\ Len(sent') = 1
            \/ ~makeBotMove(t)
C36_BotMoveAccepted == []C36_BotCanMove /\ [][C36_Fired]_vars

\* C36's case: the bot has filled the last open column but one of its game,
\* or the last cell, when its timer fired.
C36_Witness ==
    \E g \in DOMAIN games :
        /\ games[g].players[2].isBot
        /\ games[g].moveCount % 2 = 0
        /\ Cardinality({c \in ColIdx : games[g].board[0][c] = Null}) <= 1
        /\ Len(sent) = 1
        /\ sent[1].data = MoveMsg(games[g])

\* C37: handleDisconnect for a name that only waits, with no game, changes
\* nothing: the waiting entry and its matchmaking timer stay, and no
\* disconnect entry is made; a waiting name has its timer armed and no
\* disconnect entry, so that it is paired or given a game against the bot.
C37_OnlyWaits(u) == IsWaiting(waitingPlayers, u) /\ u \notin DOMAIN playerToGame
C37_Closed ==
    \A u \in Users :
        C37_OnlyWaits(u) =>
            \/ /\ UNCHANGED <<games, waitingPlayers, playerToGame,
                               disconnectedPlayers, timers, tasks, nextId>>
               /\ sent' = <<>>
               /\ calls' = <<>>
            \/ ~handleDisconnect(u)
C37_StillQueued ==
    \A u \in Users :
        IsWaiting(waitingPlayers, u) =>
            /\ u \notin DOMAIN playerToGame
            /\ u \notin DOMAIN disconnectedPlayers
            /\ \E i \in 1..Len(waitingPlayers) :
                  /\ waitingPlayers[i].username = u
                  /\ BagIn(MatchmakingTimer(waitingPlayers[i].player), timers)
C37_WaitingSurvivesClose == []C37_StillQueued /\ [][C37_Closed]_vars

\* C37's case: a name waits, with no game, while the other player is in a
\* game and away from it.
C37_Witness ==
    \E u \in Users :
        /\ C37_OnlyWaits(u)
        /\ \E v \in DOMAIN disconnectedPlayers : v # u

\* C38: a forfeit is declared only of a game in progress: when a reconnect
\* timer expires or removePlayer is called for a game that has a winner or
\* is drawn, and waits for its cleanup, nobody is told opponentLeft.
C38_ToldForfeit == \E i \in 1..Len(sent') : sent'[i].data.type = "opponentLeft"
C38_ForfeitOnlyInProgress ==
    [][C38_ToldForfeit =>
          \A g \in DOMAIN games \ DOMAIN games' : games[g].winner = Null]_vars

\* C39: gameStart is sent only for a game that is in the table when it is
\* sent: once removePlayer or a forfeit has removed a game of two players
\* while #startGame waits for the producer, no gameStart of it is sent.
C39_StartOnlyOfGamesInTable ==
    [][\A i \in 1..Len(sent') :
          sent'[i].data.type = "gameStart" => sent'[i].data.gameId \in DOMAIN games']_vars

\* C40: #cleanupGame takes away the index and disconnect entries of the
\* players of its game only: every human who holds a seat in a game of the
\* table has its index entry, which names that game, and so no name is the
\* human of a seat in two games of the table; whatever the name, the bot's
\* name too.
C40_HumanSeats(g) ==
    {games[g].players[i].username : i \in {j \in 1..2 : ~games[g].players[j].isBot}}
C40_SeatHoldersIndexed ==
    \A g \in DOMAIN games : \A u \in C40_HumanSeats(g) :
        /\ u \in DOMAIN playerToGame
        /\ playerToGame[u] = g

====
